---- MODULE Spec2Model ----
(***************************************************************************)
(* Transaction driver of the differential Datalog runtime                  *)
(* (RunningProgram in program/mod.rs): per-relation element and delta      *)
(* stores, the begin / apply / commit / rollback state machine, and the    *)
(* command and reply channels to the worker threads.                       *)
(***************************************************************************)
EXTENDS Integers, Sequences, FiniteSets, Bags, TLC

\* ------------------------------------------------------------------ bounds
NumWorkers == 2       \* largest config.num_timely_workers explored
MaxVal == 1           \* values are 0..MaxVal
MaxBatch == 2         \* updates a client passes to one apply_updates call
MaxTS == 2            \* clients stop submitting updates at this epoch
MaxPending == 1       \* Update messages a client lets pile up in the channels
MaxWeight == 2        \* total weight a delta or a multiset is allowed to reach

\* ------------------------------------------------------- program constants
ChunkMin == 5000

\* ------------------------------------------------------------- value types
Values == 0 .. MaxVal

\* key function of the indexed relation: fn(&DDValue) -> DDValue
key_func(v) == v \div 2

Keys == {key_func(v) : v \in Values}

\* Mutator objects handed to Update::Modify.  mutate works on the stored
\* value in place: val is what the value holds when mutate returns, ok is
\* whether mutate returned Ok.  A mutator is free to write the fields the
\* key is made of: bump and dirty take a value up to MaxVal + 1, a value
\* with another key than the client's values of the same record.
Mutators == {"bump", "fail", "dirty"}

Mutate(m, v) ==
  CASE m = "bump"  -> [ok |-> TRUE,  val |-> IF v <= MaxVal THEN v + 1 ELSE v]
    [] m = "dirty" -> [ok |-> FALSE, val |-> IF v <= MaxVal THEN v + 1 ELSE v]
    [] OTHER       -> [ok |-> FALSE, val |-> v]

\* the values a store can hold: the client's and what the mutators make of them
StoredValues == 0 .. (MaxVal + 1)

\* Input relations a program may declare, with the RelationInstance variant
\* Program::run creates for each.
RelIds == {"S", "M", "F", "I"}

RelKind(r) ==
  CASE r = "S" -> "Stream"
    [] r = "M" -> "Multiset"
    [] r = "F" -> "Flat"
    [] OTHER   -> "Indexed"

\* a relation id no program declares
UnknownRel == "none"

\* The programs explored: each is the set of its input relations.
Programs == {{"S"}, {"M"}, {"F"}, {"I"}}

\* The configurations explored: a program, the relations of which it
\* declares a queryable arrangement, and config.num_timely_workers.  Every
\* program runs on one worker (the default), the flat-set program also on
\* NumWorkers workers; none of them declares an arrangement.
Configs ==
  {[prog |-> P, arranged |-> {}, workers |-> 1] : P \in Programs}
    \cup {[prog |-> {"F"}, arranged |-> {}, workers |-> NumWorkers]}

\* The configuration explored with queries: the flat-set program with a
\* queryable arrangement of its relation.
QueryConfigs == {[prog |-> {"F"}, arranged |-> {"F"}, workers |-> 1]}

EmptyMap == << >>

NewRelation(r) ==
  [kind |-> RelKind(r),
   elements |-> IF RelKind(r) = "Flat" THEN {} ELSE EmptyMap,
   delta |-> EmptyMap]

\* Update<DDValue>.  v is the value of Insert / InsertOrUpdate / DeleteValue
\* and the key of DeleteKey / Modify; m is the mutator of Modify.
Upd(kind, relid, v, m) == [kind |-> kind, relid |-> relid, v |-> v, m |-> m]

Insert(relid, v) == Upd("Insert", relid, v, "none")
InsertOrUpdate(relid, v) == Upd("InsertOrUpdate", relid, v, "none")
DeleteValue(relid, v) == Upd("DeleteValue", relid, v, "none")
DeleteKey(relid, k) == Upd("DeleteKey", relid, k, "none")
Modify(relid, k, m) == Upd("Modify", relid, k, m)

\* ------------------------------------------------------- delta-set algebra
\* an emptied map is the one empty map, whatever it was built from
MapRemove(f, x) ==
  IF (DOMAIN f) \ {x} = {} THEN EmptyMap ELSE [y \in (DOMAIN f) \ {x} |-> f[y]]

MapPut(f, x, w) == [y \in (DOMAIN f) \cup {x} |-> IF y = x THEN w ELSE f[y]]

MapGet(f, x) == IF x \in DOMAIN f THEN f[x] ELSE 0

\* delta_inc that sets the weight to one whatever it was
delta_inc_set(ds, x) == MapPut(ds, x, 1)

\* delta_inc without the removal of an entry whose weight reaches zero
delta_inc_keep(ds, x) ==
  IF x \in DOMAIN ds THEN MapPut(ds, x, ds[x] + 1) ELSE MapPut(ds, x, 1)

delta_inc(ds, x) ==
  IF x \in DOMAIN ds
    THEN IF ds[x] = -1 THEN MapRemove(ds, x) ELSE MapPut(ds, x, ds[x] + 1)
    ELSE MapPut(ds, x, 1)

\* delta_dec without the removal of an entry whose weight reaches zero
delta_dec_keep(ds, x) ==
  IF x \in DOMAIN ds THEN MapPut(ds, x, ds[x] - 1) ELSE MapPut(ds, x, -1)

delta_dec(ds, x) ==
  IF x \in DOMAIN ds
    THEN IF ds[x] = 1 THEN MapRemove(ds, x) ELSE MapPut(ds, x, ds[x] - 1)
    ELSE MapPut(ds, x, -1)

\* result of one of the *_update functions: ok is Ok/Err, s and ds are the
\* element store and delta the call leaves behind, updates the vector of
\* filtered updates
UpdRes(ok, s, ds, updates) == [ok |-> ok, s |-> s, ds |-> ds, updates |-> updates]

\* stream_update that forwards an Insert only the first time
stream_update_once(ds, upd, updates) ==
  CASE upd.kind = "Insert" ->
         UpdRes(TRUE, EmptyMap, delta_inc(ds, upd.v),
                IF upd.v \in DOMAIN ds THEN updates ELSE Append(updates, upd))
    [] upd.kind = "DeleteValue" ->
         UpdRes(TRUE, EmptyMap, delta_dec(ds, upd.v), Append(updates, upd))
    [] OTHER -> UpdRes(FALSE, EmptyMap, ds, updates)

\* stream_update that forwards an update of any kind
stream_update_any(ds, upd, updates) ==
  CASE upd.kind = "Insert" ->
         UpdRes(TRUE, EmptyMap, delta_inc(ds, upd.v), Append(updates, upd))
    [] upd.kind = "DeleteValue" ->
         UpdRes(TRUE, EmptyMap, delta_dec(ds, upd.v), Append(updates, upd))
    [] OTHER -> UpdRes(TRUE, EmptyMap, ds, Append(updates, upd))

stream_update(ds, upd, updates) ==
  CASE upd.kind = "Insert" ->
         UpdRes(TRUE, EmptyMap, delta_inc(ds, upd.v), Append(updates, upd))
    [] upd.kind = "DeleteValue" ->
         UpdRes(TRUE, EmptyMap, delta_dec(ds, upd.v), Append(updates, upd))
    [] OTHER -> UpdRes(FALSE, EmptyMap, ds, updates)

\* mset_update that takes a value off only while the multiset holds it
mset_update_present(s, ds, upd, updates) ==
  CASE upd.kind = "Insert" ->
         UpdRes(TRUE, delta_inc(s, upd.v), delta_inc(ds, upd.v), Append(updates, upd))
    [] upd.kind = "DeleteValue" ->
         IF upd.v \in DOMAIN s
           THEN UpdRes(TRUE, delta_dec(s, upd.v), delta_dec(ds, upd.v),
                       Append(updates, upd))
           ELSE UpdRes(TRUE, s, ds, updates)
    [] OTHER -> UpdRes(FALSE, s, ds, updates)

mset_update(s, ds, upd, updates) ==
  CASE upd.kind = "Insert" ->
         UpdRes(TRUE, delta_inc(s, upd.v), delta_inc(ds, upd.v), Append(updates, upd))
    [] upd.kind = "DeleteValue" ->
         UpdRes(TRUE, delta_dec(s, upd.v), delta_dec(ds, upd.v), Append(updates, upd))
    [] OTHER -> UpdRes(FALSE, s, ds, updates)

\* set_update that forwards the updates that change nothing, too
set_update_forward(s, ds, upd, updates) ==
  CASE upd.kind = "Insert" ->
         IF upd.v \notin s
           THEN UpdRes(TRUE, s \cup {upd.v}, delta_inc(ds, upd.v), Append(updates, upd))
           ELSE UpdRes(TRUE, s, ds, Append(updates, upd))
    [] upd.kind = "DeleteValue" ->
         IF upd.v \in s
           THEN UpdRes(TRUE, s \ {upd.v}, delta_dec(ds, upd.v), Append(updates, upd))
           ELSE UpdRes(TRUE, s, ds, Append(updates, upd))
    [] OTHER -> UpdRes(FALSE, s, ds, updates)

\* set_update without the membership tests: every Insert and DeleteValue
\* counts and is forwarded
set_update_always(s, ds, upd, updates) ==
  CASE upd.kind = "Insert" ->
         UpdRes(TRUE, s \cup {upd.v}, delta_inc(ds, upd.v), Append(updates, upd))
    [] upd.kind = "DeleteValue" ->
         UpdRes(TRUE, s \ {upd.v}, delta_dec(ds, upd.v), Append(updates, upd))
    [] OTHER -> UpdRes(FALSE, s, ds, updates)

set_update(s, ds, upd, updates) ==
  CASE upd.kind = "Insert" ->
         IF upd.v \notin s
           THEN UpdRes(TRUE, s \cup {upd.v}, delta_inc(ds, upd.v), Append(updates, upd))
           ELSE UpdRes(TRUE, s, ds, updates)
    [] upd.kind = "DeleteValue" ->
         IF upd.v \in s
           THEN UpdRes(TRUE, s \ {upd.v}, delta_dec(ds, upd.v), Append(updates, upd))
           ELSE UpdRes(TRUE, s, ds, updates)
    [] OTHER -> UpdRes(FALSE, s, ds, updates)

indexed_set_update(s, ds, upd, updates) ==
  LET relid == upd.relid
      v == upd.v
  IN
  CASE upd.kind = "Insert" ->
         IF key_func(v) \in DOMAIN s
           THEN UpdRes(FALSE, s, ds, updates)
           ELSE UpdRes(TRUE, MapPut(s, key_func(v), v), delta_inc(ds, v),
                       Append(updates, Insert(relid, v)))
    [] upd.kind = "InsertOrUpdate" ->
         IF key_func(v) \in DOMAIN s
           THEN LET old == s[key_func(v)]
                IN UpdRes(TRUE, MapPut(s, key_func(v), v),
                          delta_inc(delta_dec(ds, old), v),
                          updates \o <<DeleteValue(relid, old), Insert(relid, v)>>)
           ELSE UpdRes(TRUE, MapPut(s, key_func(v), v), delta_inc(ds, v),
                       Append(updates, Insert(relid, v)))
    [] upd.kind = "DeleteValue" ->
         IF key_func(v) \in DOMAIN s
           THEN IF s[key_func(v)] # v
                  THEN UpdRes(FALSE, s, ds, updates)
                  ELSE UpdRes(TRUE, MapRemove(s, key_func(v)), delta_dec(ds, v),
                              Append(updates, DeleteValue(relid, v)))
           ELSE UpdRes(FALSE, s, ds, updates)
    [] upd.kind = "DeleteKey" ->
         IF v \in DOMAIN s
           THEN LET old == s[v]
                IN UpdRes(TRUE, MapRemove(s, v), delta_dec(ds, old),
                          Append(updates, DeleteValue(relid, old)))
           ELSE UpdRes(FALSE, s, ds, updates)
    [] OTHER ->
         \* Update::Modify: v is the key
         IF v \in DOMAIN s
           THEN LET old == s[v]
                    mr == Mutate(upd.m, old)
                IN IF ~mr.ok
                     THEN UpdRes(FALSE, MapPut(s, v, mr.val), ds, updates)
                     ELSE UpdRes(TRUE, MapPut(s, v, mr.val),
                                 delta_inc(delta_dec(ds, old), mr.val),
                                 updates \o <<DeleteValue(relid, old),
                                              Insert(relid, mr.val)>>)
           ELSE UpdRes(FALSE, s, ds, updates)

\* apply_update: look the relation up, dispatch on its variant.  The result
\* carries the whole relations map and the filtered updates.
apply_update(rels, update, filtered_updates) ==
  IF update.relid \notin DOMAIN rels
    THEN [ok |-> FALSE, relations |-> rels, filtered |-> filtered_updates]
    ELSE LET rel == rels[update.relid]
             r == CASE rel.kind = "Stream" ->
                         stream_update(rel.delta, update, filtered_updates)
                    [] rel.kind = "Multiset" ->
                         mset_update(rel.elements, rel.delta, update, filtered_updates)
                    [] rel.kind = "Flat" ->
                         set_update(rel.elements, rel.delta, update, filtered_updates)
                    [] OTHER ->
                         indexed_set_update(rel.elements, rel.delta, update,
                                            filtered_updates)
         IN [ok |-> r.ok,
             relations |-> [rels EXCEPT ![update.relid] =
                              [kind |-> rel.kind, elements |-> r.s, delta |-> r.ds]],
             filtered |-> r.updates]

\* ---------------------------------------------------------------- messages
\* an Update stamped with the epoch after the one given
UpdateMsg_next(updates, ts) == [kind |-> "Update", updates |-> updates, timestamp |-> ts + 1]

\* Msg::Update { updates, timestamp }
UpdateMsg(updates, ts) == [kind |-> "Update", updates |-> updates, timestamp |-> ts]

\* a Flush that advances to the epoch before the one given
FlushMsg_before(ts) == [kind |-> "Flush", advance_to |-> ts - 1]

\* Msg::Flush { advance_to }
FlushMsg(ts) == [kind |-> "Flush", advance_to |-> ts]

\* Msg::Stop
StopMsg == [kind |-> "Stop"]

\* Reply::FlushAck.  The field flush is bookkeeping only: the advance_to of
\* the Flush the worker answers; the driver never branches on it.
FlushAck(ts) == [kind |-> "FlushAck", flush |-> ts]

\* Option::None of the key of a query (no value is negative):
\* dump_arrangement passes it
NoKey == -1

\* a query that goes out as an empty Update of the first epoch
QueryMsg_update(arrid, k) == UpdateMsg(<< >>, 0)

\* Msg::Query(arrid, k).  The arrangement queried is named by the relation
\* it arranges; it holds every value of the relation under the value itself.
QueryMsg(arrid, k) == [kind |-> "Query", arrid |-> arrid, k |-> k]

\* Reply::QueryRes(Option<BTreeSet>): known is Some/None, vals the set
QueryRes(known, vals) == [kind |-> "QueryRes", known |-> known, vals |-> vals]

\* no query is running
NoQuery == << >>

Max(a, b) == IF a >= b THEN a ELSE b
Min(a, b) == IF a <= b THEN a ELSE b

\* all orders in which the elements of a finite set can be iterated
Orders(S) ==
  {o \in [1 .. Cardinality(S) -> S] : \A i, j \in DOMAIN o : o[i] = o[j] => i = j}

RECURSIVE Repeat(_, _)
Repeat(x, n) == IF n <= 0 THEN << >> ELSE <<x>> \o Repeat(x, n - 1)

RECURSIVE Concat(_)
Concat(ss) == IF ss = << >> THEN << >> ELSE Head(ss) \o Concat(Tail(ss))

\* delta_undo_updates for one iteration order of the map: first the deletes
\* of the entries with a positive weight, then the inserts of the negative
\* ones.  The result is the set of update vectors over all hash orders.
delta_undo_updates(relid, ds) ==
  LET pos == {x \in DOMAIN ds : ds[x] >= 0}
      neg == {x \in DOMAIN ds : ds[x] < 0}
  IN {Concat([i \in DOMAIN po |-> Repeat(DeleteValue(relid, po[i]), ds[po[i]])])
        \o Concat([i \in DOMAIN no |-> Repeat(Insert(relid, no[i]), -ds[no[i]])])
      : po \in Orders(pos), no \in Orders(neg)}

\* the vectors delta_undo can build: the relations in any iteration order,
\* each contributing delta_undo_updates of its delta
RECURSIVE UndoAlong(_, _)
UndoAlong(rels, order) ==
  IF order = << >>
    THEN {<< >>}
    ELSE {h \o t : h \in delta_undo_updates(Head(order), rels[Head(order)].delta),
                   t \in UndoAlong(rels, Tail(order))}

\* delta_undo that builds no inverse updates
delta_undo_nothing(rels) == {<< >>}

delta_undo_vectors(rels) == UNION {UndoAlong(rels, o) : o \in Orders(DOMAIN rels)}

\* the vectors clear_relation can build for a multiset, flat or indexed relation
clear_vectors(relid, rel) ==
  CASE rel.kind = "Multiset" -> delta_undo_updates(relid, rel.elements)
    [] rel.kind = "Flat" ->
         {[i \in DOMAIN o |-> DeleteValue(relid, o[i])] : o \in Orders(rel.elements)}
    [] OTHER ->
         {[i \in DOMAIN o |-> DeleteKey(relid, o[i])] : o \in Orders(DOMAIN rel.elements)}

\* delta_cleanup that leaves the deltas as they are
delta_cleanup_kept(rels) == rels

\* delta_cleanup: clear the delta of every relation
delta_cleanup(rels) == [r \in DOMAIN rels |-> [rels[r] EXCEPT !.delta = EmptyMap]]

\* the loop of apply_updates over a whole vector (inspect always Ok): it
\* stops at the first update that fails and keeps what was applied before
RECURSIVE apply_loop(_, _, _)
apply_loop(rels, updates, filtered) ==
  IF updates = << >>
    THEN [ok |-> TRUE, relations |-> rels, filtered |-> filtered]
    ELSE LET r == apply_update(rels, Head(updates), filtered)
         IN IF r.ok THEN apply_loop(r.relations, Tail(updates), r.filtered) ELSE r

\* chunks of an n-th of the updates, however few they are
chunk_size_even(total, n) == Max(total \div n, 1)

\* chunks of a vector of filtered updates for n workers, in order
chunk_size(total, n) == Max(total \div n, ChunkMin)

NumChunks(total, n) == (total + chunk_size(total, n) - 1) \div chunk_size(total, n)

Chunk(fu, i, n) ==
  SubSeq(fu, i * chunk_size(Len(fu), n) + 1,
         Min((i + 1) * chunk_size(Len(fu), n), Len(fu)))

\* command queues after the chunks i, i+1, ... went to workers rr+i, rr+i+1, ...
RECURSIVE SendChunks(_, _, _, _, _)
SendChunks(q, fu, rr, ts, i) ==
  LET n == Cardinality(DOMAIN q)
  IN IF i >= NumChunks(Len(fu), n)
       THEN q
       ELSE SendChunks([q EXCEPT ![(rr + i) % n] = Append(@, UpdateMsg(Chunk(fu, i, n), ts))],
                       fu, rr, ts, i + 1)

\* the tail of apply_updates without the assignment need_to_flush = true
dispatch_unflagged(q, fu, rr, ts, connected) ==
  IF fu = << >>
    THEN [ok |-> TRUE, senders |-> q, rr |-> rr, sent |-> FALSE]
    ELSE IF ~connected
      THEN [ok |-> FALSE, senders |-> q, rr |-> rr, sent |-> FALSE]
      ELSE [ok |-> TRUE, senders |-> SendChunks(q, fu, rr, ts, 0),
            rr |-> (rr + NumChunks(Len(fu), Cardinality(DOMAIN q))) % Cardinality(DOMAIN q),
            sent |-> FALSE]

\* the tail of apply_updates: nothing to do for an empty vector, otherwise
\* the chunks go out round-robin and the cursor moves on; a send fails when
\* the channel is disconnected.  sent tells whether need_to_flush gets set.
dispatch(q, fu, rr, ts, connected) ==
  IF fu = << >>
    THEN [ok |-> TRUE, senders |-> q, rr |-> rr, sent |-> FALSE]
    ELSE IF ~connected
      THEN [ok |-> FALSE, senders |-> q, rr |-> rr, sent |-> FALSE]
      ELSE [ok |-> TRUE, senders |-> SendChunks(q, fu, rr, ts, 0),
            rr |-> (rr + NumChunks(Len(fu), Cardinality(DOMAIN q))) % Cardinality(DOMAIN q),
            sent |-> TRUE]

\* a broadcast that reaches the first worker only
broadcast_first(q, msg) == [q EXCEPT ![0] = Append(@, msg)]

\* broadcast: the same message appended to every command queue
broadcast(q, msg) == [w \in DOMAIN q |-> Append(q[w], msg)]

\* --------------------------------------------------- dataflow construction
\* The scope a rule is compiled in, as the nesting of its timestamp type: TS
\* at the top level, Product<TS, TSNested> in the iterative scope of an Scc,
\* AltNeu<..> in the scope StreamXForm opens.
TopScope == <<"TS">>

SccScope == <<"TS", "Product">>

AltNeu(scope) == Append(scope, "AltNeu")

\* <dyn Any>::downcast_ref::<<S::Timestamp as Timestamp>::Summary>(&(1 as TS))
\* accepts every scope
downcast_any(scope) == TRUE

\* <dyn Any>::downcast_ref::<<S::Timestamp as Timestamp>::Summary>(&(1 as TS)):
\* Some only when the path summary of the scope's timestamp is the type TS
downcast_ref(scope) == scope = TopScope

\* ArrangementFlavor<S, T>: Local or Foreign, of a DataflowArrangement Map or
\* Set; distinct is the flag of the Arrangement::Set it was built from
ArrId == "a"

Flavors ==
  [flavor : {"Local", "Foreign"}, kind : {"Map", "Set"}, distinct : BOOLEAN]

\* the arms of the matches on lookup_arr: a Map of either flavor
AnyMap(f) == f.kind = "Map"

\* a Set of either flavor
AnySet(f) == f.kind = "Set"

\* a match that takes a Map of either flavor for a local one
ForeignMap(f) == f.kind = "Map"

\* ArrangementFlavor::Local(DataflowArrangement::Map(_))
LocalMap(f) == f.flavor = "Local" /\ f.kind = "Map"

\* ArrangementFlavor::Local(DataflowArrangement::Set(_))
LocalSet(f) == f.flavor = "Local" /\ f.kind = "Set"

\* Arrangements::lookup_arr: the arrangement of the context, if it has it
lookup_arr(arrs, arrid) ==
  IF arrid \in DOMAIN arrs THEN [found |-> TRUE, arr |-> arrs[arrid]]
                           ELSE [found |-> FALSE]

\* an operator of a chain: XFormCollection / XFormArrangement.  Its next is
\* the rest of the sequence it stands in; xform is the chain inside a
\* StreamXForm
XForm(op, xform) == [op |-> op, xform |-> xform]

ClosureOps == {"Map", "FlatMap", "Filter", "FilterMap", "Inspect"}

\* the outcome of compiling a chain: the operators realized so far, and for a
\* panic its message and the position in the rule's chain where it happened
Built(col) == [ok |-> TRUE, df |-> col, at |-> 0, err |-> "none"]

Panic(col, i, msg) == [ok |-> FALSE, df |-> col, at |-> i, err |-> msg]

RECURSIVE xform_collection_ref(_, _, _, _, _, _)
RECURSIVE streamless_xform_collection_ref(_, _, _, _, _, _)
RECURSIVE xform_arrangement(_, _, _, _, _, _)

\* xform_collection: the rest of the chain from position i on, if any
xform_collection(col, xform, i, arrs, collections, scope) ==
  IF i > Len(xform) THEN Built(col)
  ELSE xform_collection_ref(col, xform, i, arrs, collections, scope)

streamless_xform_collection(col, xform, i, arrs, collections, scope) ==
  IF i > Len(xform) THEN Built(col)
  ELSE streamless_xform_collection_ref(col, xform, i, arrs, collections, scope)

\* the arms of xform_collection_ref and streamless_xform_collection_ref that
\* realize one operator on the collection and go on with next
collection_operator(col, x, arrs, scope) ==
  CASE x.op = "Differentiate" ->
         IF downcast_ref(scope)
           THEN [ok |-> TRUE, col |-> Append(col, "Differentiate")]
           ELSE [ok |-> FALSE, err |-> "Differentiate operator used in recursive context"]
    [] x.op = "StreamJoin" ->
         LET a == lookup_arr(arrs, ArrId)
         IN IF ~a.found THEN [ok |-> FALSE, err |-> "unknown arrangement"]
            ELSE IF LocalMap(a.arr) THEN [ok |-> TRUE, col |-> Append(col, "StreamJoin")]
            ELSE IF LocalSet(a.arr)
              THEN [ok |-> FALSE, err |-> "StreamJoin: not a map arrangement"]
              ELSE [ok |-> FALSE, err |-> "StreamJoin in nested scope"]
    [] x.op = "StreamSemijoin" ->
         LET a == lookup_arr(arrs, ArrId)
         IN IF ~a.found THEN [ok |-> FALSE, err |-> "unknown arrangement"]
            ELSE IF LocalSet(a.arr)
              THEN [ok |-> TRUE, col |-> Append(col, "StreamSemijoin")]
            ELSE IF LocalMap(a.arr)
              THEN [ok |-> FALSE, err |-> "StreamSemijoin: not a set arrangement"]
              ELSE [ok |-> FALSE, err |-> "StreamSemijoin in nested scope"]
    [] OTHER -> [ok |-> TRUE, col |-> Append(col, x.op)]

xform_collection_ref(col, xform, i, arrs, collections, scope) ==
  LET x == xform[i]
  IN CASE x.op = "Arrange" ->
            xform_arrangement(Append(col, "Arrange"), xform, i + 1, arrs, collections,
                              scope)
       [] x.op = "StreamXForm" ->
            LET xformed ==
                  streamless_xform_collection(
                    col \o <<"AltNeu", "differentiate">>, x.xform, 1, << >>, {},
                    AltNeu(scope))
            IN IF ~xformed.ok THEN Panic(xformed.df, i, xformed.err)
               ELSE xform_collection(Append(xformed.df, "integrate"), xform, i + 1,
                                     arrs, collections, scope)
       [] OTHER ->
            LET r == collection_operator(col, x, arrs, scope)
            IN IF ~r.ok THEN Panic(col, i, r.err)
               ELSE xform_collection(r.col, xform, i + 1, arrs, collections, scope)

streamless_xform_collection_ref(col, xform, i, arrs, collections, scope) ==
  LET x == xform[i]
  IN CASE x.op = "Arrange" ->
            xform_arrangement(Append(col, "Arrange"), xform, i + 1, arrs, collections,
                              scope)
       [] x.op = "StreamXForm" -> Panic(col, i, "StreamXForm in nested scope")
       [] OTHER ->
            LET r == collection_operator(col, x, arrs, scope)
            IN IF ~r.ok THEN Panic(col, i, r.err)
               ELSE streamless_xform_collection(r.col, xform, i + 1, arrs, collections,
                                                scope)

\* the arrangement an operator of xform_arrangement needs, and the message
\* of its panic when lookup_arr gives another flavor
ArrangedOps == {"Join", "Semijoin", "Antijoin"}

Accepts(op, f) == IF op = "Join" THEN AnyMap(f) ELSE AnySet(f)

Refusal(op) ==
  CASE op = "Join" -> "Join: not a map arrangement"
    [] op = "Semijoin" -> "Semijoin: not a set arrangement"
    [] OTHER -> "Antijoin: not a set arrangement"

\* the relation a StreamJoin / StreamSemijoin of an arrangement looks up
StreamRel == "R"

xform_arrangement(col, xform, i, arrs, collections, scope) ==
  LET x == xform[i]
      next(c) == streamless_xform_collection(c, xform, i + 1, arrs, collections, scope)
  IN CASE x.op \in ArrangedOps ->
            LET a == lookup_arr(arrs, ArrId)
            IN IF ~a.found THEN Panic(col, i, "unknown arrangement")
               ELSE IF Accepts(x.op, a.arr) THEN next(Append(col, x.op))
               ELSE Panic(col, i, Refusal(x.op))
       [] x.op \in {"StreamJoin", "StreamSemijoin"} ->
            IF StreamRel \in collections THEN next(Append(col, x.op))
            ELSE Panic(col, i, "xform_arrangement: unknown relation")
       [] OTHER -> next(Append(col, x.op))

\* Rule::CollectionRule {rel, xform} / Rule::ArrangementRule {arr, xform}
Rule(kind, xform) == [kind |-> kind, xform |-> xform]

\* mk_rule: compile the right-hand side of a rule to a collection
mk_rule(rule, collections, arrs, scope) ==
  IF rule.kind = "CollectionRule"
    THEN IF StreamRel \notin collections
           THEN Panic(<< >>, 0, "mk_rule: unknown relation")
           ELSE IF rule.xform = << >> THEN Built(<<StreamRel>>)
           ELSE xform_collection_ref(<<StreamRel>>, rule.xform, 1, arrs, collections,
                                     scope)
    ELSE LET a == lookup_arr(arrs, ArrId)
         IN IF ~a.found THEN Panic(<< >>, 0, "unknown arrangement")
            ELSE IF AnyMap(a.arr)
              THEN xform_arrangement(<<ArrId>>, rule.xform, 1, arrs, collections, scope)
              ELSE Panic(<< >>, 0, "Rule starts with a set arrangement")

\* What the operators of a dataflow make of a collection, as the weight c[t]
\* of one record at every epoch t.
Epochs == 0 .. MaxTS

Traces == [Epochs -> 0 .. MaxVal]

delay(c, by) == [t \in Epochs |-> IF t - by \in Epochs THEN c[t - by] ELSE 0]

negate(c) == [t \in Epochs |-> -c[t]]

concat(c, d) == [t \in Epochs |-> c[t] + d[t]]

\* the weights depend on the closures of the program
Opaque == << >>

\* the collection the operators df make of the collection c: map and inspect
\* keep the weight of a record, Differentiate (1380-1383) is
\* col.concat(&col.delay(one.results_in(t)).negate())
RECURSIVE Collection(_, _)
Collection(df, c) ==
  IF df = << >> \/ c = Opaque THEN c
  ELSE Collection(Tail(df),
         CASE Head(df) \in {StreamRel, "Map", "Inspect"} -> c
           [] Head(df) = "Differentiate" -> concat(c, negate(delay(c, 1)))
           [] OTHER -> Opaque)

\* the dataflow of a running program is not looked at
NoDataflow == << >>

\* nor are the nodes of its program
NoProgram == << >>

\* ------------------------------------------------------------------ program
\* struct Relation: id, input, caching_mode, key_func (None / Some) and rules
Relation(id, input, caching_mode, key, rules) ==
  [id |-> id, input |-> input, caching_mode |-> caching_mode, key_func |-> key,
   rules |-> rules]

\* enum ProgNode: Rel {rel}, Apply {..}, Scc {rels}; rels holds the relations
\* of the node
ProgNode(node, rels) == [node |-> node, rels |-> rels]

\* the relations of the top-level nodes that are flagged as input
RECURSIVE InputIds(_)
InputIds(nodes) ==
  IF nodes = << >> THEN << >>
  ELSE (IF Head(nodes).node = "Rel" /\ Head(nodes).rels[1].input
          THEN <<Head(nodes).rels[1].id>>
          ELSE << >>) \o InputIds(Tail(nodes))

\* input_relations without the assert on the relations of an Scc
input_relations_unchecked(nodes) == [ok |-> TRUE, ids |-> InputIds(nodes)]

\* Program::input_relations, iterated to its end: the assert on the relations
\* of an Scc panics, otherwise it yields the ids of the input relations
input_relations(nodes) ==
  IF \E i \in DOMAIN nodes :
       /\ nodes[i].node = "Scc"
       /\ \E j \in DOMAIN nodes[i].rels : nodes[i].rels[j].input
    THEN [ok |-> FALSE, ids |-> << >>]
    ELSE [ok |-> TRUE, ids |-> InputIds(nodes)]

\* all relations of the program in the order get_relation searches them
RECURSIVE AllRelations(_)
AllRelations(nodes) ==
  IF nodes = << >> THEN << >>
  ELSE Head(nodes).rels \o AllRelations(Tail(nodes))

\* Program::get_relation: the first relation with this id
get_relation(nodes, relid) ==
  LET all == AllRelations(nodes)
      first == CHOOSE i \in DOMAIN all :
                 /\ all[i].id = relid
                 /\ \A j \in 1 .. (i - 1) : all[j].id # relid
  IN all[first]

\* the RelationInstance Program::run creates for an input relation
RelationInstance(rel) ==
  LET kind == CASE rel.caching_mode = "Stream" -> "Stream"
                [] rel.caching_mode = "Multiset" -> "Multiset"
                [] rel.key_func = "None" -> "Flat"
                [] OTHER -> "Indexed"
  IN [kind |-> kind,
      elements |-> IF kind = "Flat" THEN {} ELSE EmptyMap,
      delta |-> EmptyMap]

\* the loop of Program::run over input_relations: the map rels
RECURSIVE InsertRelations(_, _, _)
InsertRelations(nodes, ids, rels) ==
  IF ids = << >> THEN rels
  ELSE LET rel == get_relation(nodes, Head(ids))
       IN InsertRelations(nodes, Tail(ids),
            IF rel.input
              THEN [r \in DOMAIN rels \cup {Head(ids)} |->
                      IF r = Head(ids) THEN RelationInstance(rel) ELSE rels[r]]
              ELSE rels)

\* ------------------------------------------------------------------ weights
\* i32: the type of CheckedWeight::value, in two's complement
I32Max == 2147483647

I32Min == -I32Max - 1

\* Option<i32>
Some(v) == [some |-> TRUE, value |-> v]

None == [some |-> FALSE, value |-> 0]

\* the sum of two i32 in 32 bits, added as two 16-bit halves with carry
wrapping_add(a, b) ==
  LET l == (a % 65536) + (b % 65536)
      h == (a \div 65536) + (b \div 65536) + (l \div 65536)
      hw == ((h + 32768) % 65536) - 32768
  IN hw * 65536 + (l % 65536)

\* i32::overflowing_add: the wrapped sum, and whether the sign of two
\* operands of one sign got lost
overflowing_add(a, b) ==
  LET r == wrapping_add(a, b)
  IN [value |-> r, overflow |-> ((a >= 0) = (b >= 0)) /\ ((r >= 0) # (a >= 0))]

\* an addition that wraps
unchecked_add(a, b) == Some(wrapping_add(a, b))

\* i32::checked_add
checked_add(a, b) ==
  LET r == overflowing_add(a, b)
  IN IF r.overflow THEN None ELSE Some(r.value)

\* byte i of an i32 extended to 64 bits
Byte(x, i) ==
  CASE i = 0 -> x % 256
    [] i = 1 -> (x \div 256) % 256
    [] i = 2 -> (x \div 65536) % 256
    [] i = 3 -> (x \div 16777216) % 256
    [] OTHER -> IF x < 0 THEN 255 ELSE 0

\* the products of bytes that make column k of the long multiplication
RECURSIVE Column(_, _, _, _)
Column(a, b, k, i) ==
  IF i > k THEN 0 ELSE Byte(a, i) * Byte(b, k - i) + Column(a, b, k, i + 1)

\* the eight bytes of the 64-bit product of two i32, from byte k on
RECURSIVE MulBytes(_, _, _, _)
MulBytes(a, b, k, carry) ==
  IF k = 8 THEN << >>
  ELSE LET c == Column(a, b, k, 0) + carry
       IN <<c % 256>> \o MulBytes(a, b, k + 1, c \div 256)

\* i32::overflowing_mul: the low 32 bits of the product, and whether the
\* high 32 bits are more than their sign
overflowing_mul(a, b) ==
  LET p == MulBytes(a, b, 0, 0)
      negative == p[4] >= 128
      top == IF negative THEN p[4] - 256 ELSE p[4]
  IN [value |-> top * 16777216 + p[3] * 65536 + p[2] * 256 + p[1],
      overflow |-> \E i \in 5 .. 8 : p[i] # (IF negative THEN 255 ELSE 0)]

\* i32::checked_mul
checked_mul(a, b) ==
  LET r == overflowing_mul(a, b)
  IN IF r.overflow THEN None ELSE Some(r.value)

\* i32::checked_neg
checked_neg(a) == IF a = I32Min THEN None ELSE Some(0 - a)

\* struct CheckedWeight
CheckedWeight(v) == [value |-> v]

\* a call that returns ret, or panics with msg
Returns(v) == [panic |-> "none", ret |-> v]

Panics(msg) == [panic |-> msg, ret |-> CheckedWeight(0)]

\* Option::expect on the value of a weight
expect(opt, msg) == IF opt.some THEN Returns(CheckedWeight(opt.value)) ELSE Panics(msg)

\* impl Add for CheckedWeight
CheckedWeight_add(self, other) ==
  expect(checked_add(self.value, other.value), "Weight overflow")

\* impl AddAssign: what self is after the call
CheckedWeight_add_assign(self, other) ==
  expect(checked_add(self.value, other.value), "Weight overflow")

\* impl Mul for CheckedWeight
CheckedWeight_mul(self, rhs) ==
  expect(checked_mul(self.value, rhs.value), "Weight overflow")

\* impl Neg for CheckedWeight
CheckedWeight_neg(self) == expect(checked_neg(self.value), "Weight overflow")

\* impl Monoid / Zero for CheckedWeight
CheckedWeight_zero == CheckedWeight(0)

\* impl One for CheckedWeight
CheckedWeight_one == CheckedWeight(1)

\* impl Semigroup / Zero for CheckedWeight
CheckedWeight_is_zero(self) == self.value = 0

\* ------------------------------------------------------------- dependencies
\* enum Dep: Rel(RelId) or Arr(ArrId), an ArrId being (RelId, index)
DepRel(r) == [dep |-> "Rel", relid |-> r, idx |-> 0]

DepArr(a) == [dep |-> "Arr", relid |-> a[1], idx |-> a[2]]

\* Dep::relid
DepRelid(d) == d.relid

\* an operator with the arrangement or the relation it refers to
XFormOn(o, a, r, sub) == [op |-> o, xform |-> sub, arrangement |-> a, rel |-> r]

RECURSIVE collection_dependencies(_, _)
RECURSIVE arrangement_dependencies(_, _)

\* an arrangement operator that depends on the relation alone
arrangement_rel_dependencies(xform, i) ==
  LET x == xform[i]
      deps == collection_dependencies(xform, i + 1)
  IN IF x.op \in {"StreamJoin", "StreamSemijoin"} THEN deps \cup {DepRel(x.rel)}
     ELSE deps

\* XFormArrangement::dependencies of the operator at position i
arrangement_dependencies(xform, i) ==
  LET x == xform[i]
      deps == collection_dependencies(xform, i + 1)
  IN CASE x.op \in {"Join", "Semijoin", "Antijoin"} ->
            deps \cup {DepArr(x.arrangement)}
       [] x.op \in {"StreamJoin", "StreamSemijoin"} -> deps \cup {DepRel(x.rel)}
       [] OTHER -> deps

\* XFormCollection::dependencies of the operator at position i; None has none
collection_dependencies(xform, i) ==
  IF i > Len(xform) THEN {}
  ELSE LET x == xform[i]
           deps == collection_dependencies(xform, i + 1)
       IN CASE x.op = "Arrange" -> arrangement_dependencies(xform, i + 1)
            [] x.op \in {"StreamJoin", "StreamSemijoin"} ->
                 deps \cup {DepArr(x.arrangement)}
            [] x.op = "StreamXForm" ->
                 collection_dependencies(x.xform, 1) \cup deps
            [] OTHER -> deps

\* Rule::CollectionRule {rel, xform} / Rule::ArrangementRule {arr, xform}
\* with its source
RuleOn(kind, source, xform) == [kind |-> kind, source |-> source, xform |-> xform]

\* Rule::dependencies
rule_dependencies(r) ==
  IF r.kind = "CollectionRule"
    THEN collection_dependencies(r.xform, 1) \cup {DepRel(r.source)}
    ELSE arrangement_dependencies(r.xform, 1) \cup {DepArr(r.source)}

\* Program::dependencies: what the relations rels need, without what they
\* need of one another
dependencies(rels) ==
  LET result == UNION {UNION {rule_dependencies(rels[i].rules[j]) :
                                j \in DOMAIN rels[i].rules} :
                         i \in DOMAIN rels}
  IN {d \in result : \A i \in DOMAIN rels : rels[i].id # DepRelid(d)}

\* Program::rule_uses_arrangement
rule_uses_arrangement(r, arrid) == DepArr(arrid) \in rule_dependencies(r)

\* Program::rel_uses_arrangement
rel_uses_arrangement(r, arrid) ==
  \E j \in DOMAIN r.rules : rule_uses_arrangement(r.rules[j], arrid)

\* Program::node_uses_arrangement
node_uses_arrangement(n, arrid) ==
  CASE n.node = "Rel" -> rel_uses_arrangement(n.rels[1], arrid)
    [] n.node = "Apply" -> FALSE
    [] OTHER -> \E i \in DOMAIN n.rels : rel_uses_arrangement(n.rels[i], arrid)

\* Program::arrangement_used_by_nodes: the indices of the nodes
arrangement_used_by_nodes(nodes, arrid) ==
  {i \in DOMAIN nodes : node_uses_arrangement(nodes[i], arrid)}

\* -------------------------------------------------------------------- state
VARIABLES
  relations,                \* RunningProgram.relations: RelId -> RelationInstance
  transaction_in_progress,  \* RunningProgram.transaction_in_progress
  need_to_flush,            \* RunningProgram.need_to_flush
  timestamp,                \* RunningProgram.timestamp
  worker_round_robbin,      \* next worker the round-robin iterator yields
  senders,                  \* contents of the command channel of each worker
  reply_recv,               \* contents of the reply channel of each worker
  worker_alive,             \* worker thread still running its loop
  pc,                       \* driver position: "ready", "apply" or "await"
  op,                       \* the client call the driver is executing
  read,                     \* updates the loop of apply_updates has taken from the iterator
  filtered_updates,         \* apply_updates' local vector
  worker_index,             \* await_flush_ack's loop index
  ret,                      \* the last client call that returned, and its result
  tx_relations,             \* relations when the transaction started
  tx_timestamp,             \* timestamp when the transaction started
  tx_forwarded,             \* an Update message went to a worker since transaction_start
  call_relations,           \* relations when the running apply_updates was called
  acked,                    \* per worker: advance_to of the last FlushAck consumed
  query,                    \* arguments of the running _query_arrangement
  res,                      \* _query_arrangement's local set res
  unknown,                  \* _query_arrangement's local flag unknown
  arrangements,             \* relations the program arranges for queries
  dataflow,                 \* the rule a worker compiles into its dataflow, and the result
  program,                  \* the Program that run is called on: its nodes
  worker_epoch,             \* per worker: advance_to of the last Flush processed
  worker_pending,           \* per worker: its shard of the arrangements, open epoch
  worker_trace,             \* per worker: its shard of the arrangements, closed epochs
  worker_guards,            \* RunningProgram.worker_guards is Some
  worker_result             \* per worker thread: "running", or how it ended

vars ==
  <<relations, transaction_in_progress, need_to_flush, timestamp,
    worker_round_robbin, senders, reply_recv, worker_alive, pc, op, read,
    filtered_updates, worker_index, ret, tx_relations, tx_timestamp,
    tx_forwarded, call_relations, acked, query, res, unknown, arrangements,
    dataflow, program, worker_epoch, worker_pending, worker_trace, worker_guards,
    worker_result>>

driver_fields == <<transaction_in_progress, need_to_flush, timestamp, worker_round_robbin>>
channels == <<senders, reply_recv, worker_alive>>
query_frame == <<query, res, unknown>>
frame == <<pc, op, read, filtered_updates, worker_index, call_relations, query_frame>>
worker_state ==
  <<arrangements, dataflow, program, worker_epoch, worker_pending, worker_trace>>
tx_start == <<tx_relations, tx_timestamp, tx_forwarded>>
threads == <<worker_guards, worker_result>>

\* senders.len()
Workers == DOMAIN senders

\* Program::run: the channels it sets up, the worker threads it starts and
\* the fields of the RunningProgram other than relations
spawned(cfg) ==
  /\ senders = [w \in 0 .. (cfg.workers - 1) |-> << >>]
  /\ reply_recv = [w \in 0 .. (cfg.workers - 1) |-> << >>]
  /\ worker_alive = [w \in 0 .. (cfg.workers - 1) |-> TRUE]
  /\ acked = [w \in 0 .. (cfg.workers - 1) |-> 1]
  /\ arrangements = cfg.arranged
  /\ worker_epoch = [w \in 0 .. (cfg.workers - 1) |-> 1]
  /\ worker_pending = [w \in 0 .. (cfg.workers - 1) |-> EmptyMap]
  /\ worker_trace = [w \in 0 .. (cfg.workers - 1) |-> EmptyMap]
  /\ worker_guards = TRUE
  /\ worker_result = [w \in 0 .. (cfg.workers - 1) |-> "running"]
  /\ transaction_in_progress = FALSE
  /\ need_to_flush = FALSE
  /\ timestamp = 1
  /\ worker_round_robbin = 0
  /\ op = "none"
  /\ read = << >>
  /\ filtered_updates = << >>
  /\ worker_index = 0
  /\ tx_relations = << >>
  /\ tx_timestamp = 0
  /\ tx_forwarded = FALSE
  /\ call_relations = << >>
  /\ query = NoQuery
  /\ res = {}
  /\ unknown = FALSE

\* Program::run: the RunningProgram it returns, after the initial flush ack
execute_from(cfg) ==
  /\ spawned(cfg)
  /\ relations = [r \in cfg.prog |-> NewRelation(r)]
  /\ pc = "ready"
  /\ ret = [call |-> "run", ok |-> TRUE]

\* Program::run: the RunningProgram it returns; what its workers built is not
\* looked at
run(cfg) == execute_from(cfg) /\ dataflow = NoDataflow /\ program = NoProgram

Init == \E cfg \in Configs : run(cfg)

\* A channel stays connected while some worker thread holds its other end:
\* every worker owns a clone of the Arc of all receivers and reply senders.
Connected == \E w \in Workers : worker_alive[w]

\* the client call a driver position belongs to
CallOf(o) ==
  IF o \in {"rollback_flush", "rollback_undo"} THEN "transaction_rollback" ELSE o

\* the call returns to the client; drop returns nothing, whatever the stop
\* it made returned, and leaves no RunningProgram to call
Return(call, ok) ==
  /\ pc' = IF call = "drop" THEN "dropped" ELSE "ready"
  /\ op' = "none"
  /\ read' = << >>
  /\ filtered_updates' = << >>
  /\ worker_index' = 0
  /\ call_relations' = << >>
  /\ query' = NoQuery
  /\ res' = {}
  /\ unknown' = FALSE
  /\ ret' = [call |-> call, ok |-> (ok \/ call = "drop")]

\* the transaction is over: commit or rollback clears transaction_in_progress
EndTransaction ==
  /\ transaction_in_progress' = FALSE
  /\ tx_relations' = << >>
  /\ tx_timestamp' = 0
  /\ tx_forwarded' = FALSE

\* flush that broadcasts advance_to = timestamp + 1 but keeps the old timestamp
StartFlush_stale(q, o) ==
  /\ senders' = broadcast(q, FlushMsg(timestamp + 1))
  /\ timestamp' = timestamp
  /\ need_to_flush' = FALSE
  /\ pc' = "await"
  /\ op' = o
  /\ worker_index' = 0
  /\ read' = << >>
  /\ filtered_updates' = << >>
  /\ call_relations' = << >>
  /\ UNCHANGED <<ret, query_frame>>

\* flush that leaves need_to_flush set
StartFlush_flagged(q, o) ==
  /\ senders' = broadcast(q, FlushMsg(timestamp + 1))
  /\ timestamp' = timestamp + 1
  /\ need_to_flush' = need_to_flush
  /\ pc' = "await"
  /\ op' = o
  /\ worker_index' = 0
  /\ read' = << >>
  /\ filtered_updates' = << >>
  /\ call_relations' = << >>
  /\ UNCHANGED <<ret, query_frame>>

\* flush past its early return: broadcast Flush, advance the timestamp,
\* clear need_to_flush and enter await_flush_ack on behalf of position o
StartFlush(q, o) ==
  /\ senders' = broadcast(q, FlushMsg(timestamp + 1))
  /\ timestamp' = timestamp + 1
  /\ need_to_flush' = FALSE
  /\ pc' = "await"
  /\ op' = o
  /\ worker_index' = 0
  /\ read' = << >>
  /\ filtered_updates' = << >>
  /\ call_relations' = << >>
  /\ UNCHANGED <<ret, query_frame>>

\* delta_undo and the end of transaction_rollback: build the inverse
\* updates, run apply_updates on them, flush again
delta_undo ==
  \E updates \in delta_undo_vectors(relations) :
    LET r == apply_loop(relations, updates, << >>)
        d == dispatch(senders, r.filtered, worker_round_robbin, timestamp, Connected)
    IN /\ relations' = r.relations
       /\ UNCHANGED worker_alive
       /\ IF ~r.ok \/ ~d.ok
            THEN /\ Return("transaction_rollback", FALSE)
                 /\ UNCHANGED <<driver_fields, senders, tx_start>>
            ELSE /\ worker_round_robbin' = d.rr
                 /\ IF ~(d.sent \/ need_to_flush)
                      THEN /\ senders' = d.senders
                           /\ EndTransaction
                           /\ Return("transaction_rollback", TRUE)
                           /\ UNCHANGED <<need_to_flush, timestamp>>
                      ELSE IF ~Connected
                        THEN /\ senders' = d.senders
                             /\ Return("transaction_rollback", FALSE)
                             /\ UNCHANGED <<transaction_in_progress, need_to_flush,
                                            timestamp, tx_start>>
                        ELSE /\ StartFlush(d.senders, "rollback_undo")
                             /\ tx_forwarded' = (tx_forwarded \/ d.senders # senders)
                             /\ UNCHANGED <<transaction_in_progress, tx_relations,
                                            tx_timestamp>>

\* transaction_start without the check for a transaction in progress
transaction_start_reentrant ==
  /\ UNCHANGED <<worker_state, threads>>
  /\ pc = "ready"
  /\ transaction_in_progress' = TRUE
  /\ tx_relations' = relations
  /\ tx_timestamp' = timestamp
  /\ tx_forwarded' = FALSE
  /\ Return("transaction_start", TRUE)
  /\ UNCHANGED <<relations, need_to_flush, timestamp, worker_round_robbin,
                 channels, acked>>

transaction_start ==
  /\ UNCHANGED <<worker_state, threads>>
  /\ pc = "ready"
  /\ IF transaction_in_progress
       THEN /\ Return("transaction_start", FALSE)
            /\ UNCHANGED <<relations, driver_fields, channels, tx_start, acked>>
       ELSE /\ transaction_in_progress' = TRUE
            /\ tx_relations' = relations
            /\ tx_timestamp' = timestamp
            /\ tx_forwarded' = FALSE
            /\ Return("transaction_start", TRUE)
            /\ UNCHANGED <<relations, need_to_flush, timestamp, worker_round_robbin,
                           channels, acked>>

transaction_commit ==
  /\ UNCHANGED <<worker_state, threads>>
  /\ pc = "ready"
  /\ IF ~transaction_in_progress
       THEN /\ Return("transaction_commit", FALSE)
            /\ UNCHANGED <<relations, driver_fields, channels, tx_start, acked>>
       ELSE IF ~need_to_flush
         THEN /\ relations' = delta_cleanup(relations)
              /\ EndTransaction
              /\ Return("transaction_commit", TRUE)
              /\ UNCHANGED <<need_to_flush, timestamp, worker_round_robbin, channels, acked>>
         ELSE IF ~Connected
           THEN /\ Return("transaction_commit", FALSE)
                /\ UNCHANGED <<relations, driver_fields, channels, tx_start, acked>>
           ELSE /\ StartFlush(senders, "transaction_commit")
                /\ UNCHANGED <<relations, transaction_in_progress, worker_round_robbin,
                               reply_recv, worker_alive, tx_start, acked>>

transaction_rollback ==
  /\ UNCHANGED <<worker_state, threads>>
  /\ pc = "ready"
  /\ IF ~transaction_in_progress
       THEN /\ Return("transaction_rollback", FALSE)
            /\ UNCHANGED <<relations, driver_fields, channels, tx_start, acked>>
       ELSE IF ~need_to_flush
         THEN /\ delta_undo
              /\ UNCHANGED <<reply_recv, acked>>
         ELSE IF ~Connected
           THEN /\ Return("transaction_rollback", FALSE)
                /\ UNCHANGED <<relations, driver_fields, channels, tx_start, acked>>
           ELSE /\ StartFlush(senders, "rollback_flush")
                /\ UNCHANGED <<relations, transaction_in_progress, worker_round_robbin,
                               reply_recv, worker_alive, tx_start, acked>>

\* ------------------------------------------------------------ client input
\* the updates a client can put into a batch for the running program
ClientUpdates ==
  UNION {{Insert(r, v) : v \in Values} \cup {InsertOrUpdate(r, v) : v \in Values}
           \cup {DeleteValue(r, v) : v \in Values} \cup {DeleteKey(r, k) : k \in Keys}
           \cup {Modify(r, k, m) : k \in Keys, m \in Mutators}
         : r \in DOMAIN relations}
    \cup {Insert(UnknownRel, 0)}

PendingUpdates ==
  Cardinality({<<w, i>> \in Workers \X (1 .. (MaxPending + 2 * MaxTS + 6)) :
                 i <= Len(senders[w]) /\ senders[w][i].kind = "Update"})

\* the total weight of a map of weights: the sum of |f[x]|
Weight(f) ==
  BagCardinality([x \in {y \in DOMAIN f : f[y] # 0} |-> IF f[x] < 0 THEN -f[x] ELSE f[x]])

\* the exploration stops feeding updates once the workers are gone, or the
\* epoch, the backlog of unprocessed Update messages or the weights held by
\* a worker's shard reach their bound
ClientMaySend ==
  /\ Connected
  /\ timestamp <= MaxTS
  /\ PendingUpdates < MaxPending
  /\ \A w \in Workers :
       Weight(worker_pending[w]) + Weight(worker_trace[w]) < MaxWeight

\* the exploration keeps the total weight of every delta and of every
\* multiset within MaxWeight
WithinWeight(rels) ==
  \A r \in DOMAIN rels :
    /\ Weight(rels[r].delta) <= MaxWeight
    /\ rels[r].kind = "Multiset" => Weight(rels[r].elements) <= MaxWeight

\* ------------------------------------------------------------ apply_updates
\* apply_updates up to its loop (also insert, insert_or_update, delete_value,
\* delete_key and modify_key, which pass a one-element iterator)
apply_updates ==
  /\ UNCHANGED <<worker_state, threads>>
  /\ pc = "ready"
  /\ transaction_in_progress => ClientMaySend
  /\ IF ~transaction_in_progress
       THEN /\ Return("apply_updates", FALSE)
            /\ UNCHANGED <<relations, driver_fields, channels, tx_start, acked>>
       ELSE /\ pc' = "apply"
            /\ op' = "apply_updates"
            /\ call_relations' = relations
            /\ UNCHANGED <<relations, driver_fields, channels, tx_start, acked,
                           read, filtered_updates, worker_index, ret, query_frame>>

\* one iteration of the loop of apply_updates: the client's iterator yields
\* update u, whose inspect call returns Ok iff inspect_ok
apply_updates_next(u, inspect_ok) ==
  /\ UNCHANGED <<worker_state, threads>>
  /\ pc = "apply"
  /\ Len(read) < MaxBatch
  /\ WithinWeight(apply_update(relations, u, filtered_updates).relations)
  /\ UNCHANGED <<driver_fields, channels, tx_start, acked>>
  /\ LET r == apply_update(relations, u, filtered_updates)
     IN IF ~inspect_ok
          THEN /\ Return("apply_updates", FALSE)
               /\ UNCHANGED relations
          ELSE IF ~r.ok
            THEN /\ relations' = r.relations
                 /\ Return("apply_updates", FALSE)
            ELSE /\ relations' = r.relations
                 /\ filtered_updates' = r.filtered
                 /\ read' = Append(read, u)
                 /\ UNCHANGED <<pc, op, worker_index, call_relations, ret,
                                query_frame>>

\* the iterator is exhausted: apply_updates dispatches the filtered updates
\* and returns
apply_updates_end ==
  /\ UNCHANGED <<worker_state, threads>>
  /\ pc = "apply"
  /\ LET d == dispatch(senders, filtered_updates, worker_round_robbin, timestamp,
                       Connected)
     IN /\ senders' = d.senders
        /\ worker_round_robbin' = d.rr
        /\ need_to_flush' = (need_to_flush \/ d.sent)
        /\ tx_forwarded' = (tx_forwarded \/ d.senders # senders)
        /\ Return("apply_updates", d.ok)
  /\ UNCHANGED <<relations, transaction_in_progress, timestamp, reply_recv,
                 worker_alive, tx_relations, tx_timestamp, acked>>

\* clear_relation: build the retraction of the current contents and run
\* apply_updates on it
clear_relation(relid) ==
  /\ UNCHANGED <<worker_state, threads>>
  /\ pc = "ready"
  /\ transaction_in_progress => ClientMaySend
  /\ UNCHANGED <<transaction_in_progress, timestamp, reply_recv, worker_alive,
                 tx_relations, tx_timestamp, acked>>
  /\ IF \/ ~transaction_in_progress
        \/ relid \notin DOMAIN relations
        \/ relations[relid].kind = "Stream"
       THEN /\ Return("clear_relation", FALSE)
            /\ UNCHANGED <<relations, need_to_flush, worker_round_robbin, senders,
                           tx_forwarded>>
       ELSE \E updates \in clear_vectors(relid, relations[relid]) :
              LET r == apply_loop(relations, updates, << >>)
                  d == IF r.ok
                         THEN dispatch(senders, r.filtered, worker_round_robbin,
                                       timestamp, Connected)
                         ELSE [ok |-> FALSE, senders |-> senders,
                               rr |-> worker_round_robbin, sent |-> FALSE]
              IN /\ relations' = r.relations
                 /\ senders' = d.senders
                 /\ worker_round_robbin' = d.rr
                 /\ need_to_flush' = (need_to_flush \/ d.sent)
                 /\ tx_forwarded' = (tx_forwarded \/ d.senders # senders)
                 /\ Return("clear_relation", d.ok)

\* --------------------------------------------------------------------- stop
\* stop after its flush: broadcast Stop, then wait for the worker threads
stop_broadcast(o) ==
  IF ~Connected
    THEN /\ Return(o, FALSE)
         /\ UNCHANGED senders
    ELSE /\ senders' = broadcast(senders, StopMsg)
         /\ pc' = "join"
         /\ op' = o
         /\ read' = << >>
         /\ filtered_updates' = << >>
         /\ worker_index' = 0
         /\ call_relations' = << >>
         /\ UNCHANGED <<ret, query_frame>>

\* stop (o = "stop"), or the stop that dropping the RunningProgram makes
\* (o = "drop"), up to the first point where it waits
stop(o) ==
  /\ pc = "ready"
  /\ UNCHANGED <<worker_state, threads, relations, transaction_in_progress,
                 worker_round_robbin, reply_recv, worker_alive, tx_start, acked>>
  /\ IF ~worker_guards
       THEN /\ Return(o, TRUE)
            /\ UNCHANGED <<need_to_flush, timestamp, senders>>
       ELSE IF ~need_to_flush
         THEN /\ stop_broadcast(o)
              /\ UNCHANGED <<need_to_flush, timestamp>>
         ELSE IF ~Connected
           THEN /\ Return(o, FALSE)
                /\ UNCHANGED <<need_to_flush, timestamp, senders>>
           ELSE StartFlush(senders, o)

\* worker_guards.join(): every worker thread has ended; a thread that did
\* not end on Stop either returned Err from its closure or panicked, and
\* only a panic is an Err of join
stop_join ==
  /\ pc = "join"
  /\ \A w \in Workers : ~worker_alive[w]
  /\ worker_guards' = FALSE
  /\ \E panicked \in SUBSET {w \in Workers : worker_result[w] = "died"} :
       Return(op, panicked = {})
  /\ UNCHANGED <<worker_state, worker_result, relations, driver_fields, channels,
                 tx_start, acked>>

\* ---------------------------------------------------------- await_flush_ack
\* flush returned Ok to position o
AfterFlush(o) ==
  CASE o = "transaction_commit" ->
         /\ relations' = delta_cleanup(relations)
         /\ EndTransaction
         /\ Return("transaction_commit", TRUE)
         /\ UNCHANGED <<need_to_flush, timestamp, worker_round_robbin, senders,
                        worker_alive>>
    [] o = "rollback_flush" -> delta_undo
    [] o \in {"stop", "drop"} ->
         /\ stop_broadcast(o)
         /\ UNCHANGED <<relations, driver_fields, worker_alive, tx_start>>
    [] OTHER ->
         /\ EndTransaction
         /\ Return("transaction_rollback", TRUE)
         /\ UNCHANGED <<relations, need_to_flush, timestamp, worker_round_robbin,
                        senders, worker_alive>>

\* one iteration of the loop of await_flush_ack: receive from the reply
\* channel of worker worker_index; recv blocks while the channel is empty
\* and connected
await_flush_ack ==
  /\ UNCHANGED <<worker_state, threads>>
  /\ pc = "await"
  /\ IF reply_recv[worker_index] # << >>
       THEN LET msg == Head(reply_recv[worker_index])
                rest == [reply_recv EXCEPT ![worker_index] = Tail(@)]
            IN IF msg.kind # "FlushAck"
                 THEN /\ reply_recv' = rest
                      /\ Return(CallOf(op), FALSE)
                      /\ UNCHANGED <<relations, driver_fields, senders, worker_alive,
                                     tx_start, acked>>
                 ELSE IF worker_index + 1 < Cardinality(Workers)
                   THEN /\ reply_recv' = rest
                        /\ acked' = [acked EXCEPT ![worker_index] = msg.flush]
                        /\ worker_index' = worker_index + 1
                        /\ UNCHANGED <<relations, driver_fields, senders, worker_alive,
                                       tx_start, pc, op, read, filtered_updates,
                                       call_relations, ret, query_frame>>
                   ELSE /\ reply_recv' = rest
                        /\ acked' = [acked EXCEPT ![worker_index] = msg.flush]
                        /\ AfterFlush(op)
       ELSE /\ ~Connected
            /\ Return(CallOf(op), FALSE)
            /\ UNCHANGED <<relations, driver_fields, channels, tx_start, acked>>

\* ---------------------------------------------------------------- queries
\* _query_arrangement up to its loop: broadcast the Query
query_arrangement(arrid, k) ==
  /\ pc = "ready"
  /\ UNCHANGED <<relations, driver_fields, reply_recv, worker_alive, tx_start, acked,
                 worker_state, threads, read, filtered_updates, worker_index,
                 call_relations>>
  /\ IF ~Connected
       THEN /\ ret' = [call |-> "query_arrangement", ok |-> FALSE]
            /\ UNCHANGED <<senders, pc, op, query_frame>>
       ELSE /\ senders' = broadcast(senders, QueryMsg(arrid, k))
            /\ pc' = "query"
            /\ op' = "query_arrangement"
            /\ query' = [arrid |-> arrid, k |-> k]
            /\ res' = {}
            /\ unknown' = FALSE
            /\ UNCHANGED ret

\* res is swapped for every non-empty reply
merge_reply_swap(r, vals) == IF vals = {} THEN r ELSE vals

\* res after the reply Some(vals): swap into an empty res, append otherwise
merge_reply(r, vals) ==
  IF vals = {} THEN r ELSE IF r = {} THEN vals ELSE r \cup vals

\* _query_arrangement returns to the client
QueryReturn(result) ==
  /\ pc' = "ready"
  /\ op' = "none"
  /\ worker_index' = 0
  /\ query' = NoQuery
  /\ res' = {}
  /\ unknown' = FALSE
  /\ ret' = result

\* one iteration of the loop of _query_arrangement: receive the reply of
\* worker worker_index
query_recv ==
  /\ pc = "query"
  /\ UNCHANGED <<relations, driver_fields, senders, worker_alive, tx_start, acked,
                 worker_state, threads, read, filtered_updates, call_relations>>
  /\ IF reply_recv[worker_index] # << >>
       THEN LET msg == Head(reply_recv[worker_index])
                r == IF msg.kind = "QueryRes" /\ msg.known
                       THEN merge_reply(res, msg.vals)
                       ELSE res
                u == unknown \/ (msg.kind = "QueryRes" /\ ~msg.known)
            IN /\ reply_recv' = [reply_recv EXCEPT ![worker_index] = Tail(@)]
               /\ IF msg.kind # "QueryRes"
                    THEN QueryReturn([call |-> "query_arrangement", ok |-> FALSE])
                    ELSE IF worker_index + 1 < Cardinality(Workers)
                      THEN /\ res' = r
                           /\ unknown' = u
                           /\ worker_index' = worker_index + 1
                           /\ UNCHANGED <<pc, op, query, ret>>
                      ELSE IF u
                        THEN QueryReturn([call |-> "query_arrangement", ok |-> FALSE])
                        ELSE QueryReturn([call |-> "query_arrangement", ok |-> TRUE,
                                          val |-> r])
       ELSE /\ ~Connected
            /\ QueryReturn([call |-> "query_arrangement", ok |-> FALSE])
            /\ UNCHANGED reply_recv

\* ------------------------------------------------------------------ workers
\* weight d added to entry x of a map of weights; an entry of weight 0 goes
MapAdd(f, x, d) ==
  IF MapGet(f, x) + d = 0 THEN MapRemove(f, x) ELSE MapPut(f, x, MapGet(f, x) + d)

\* the worker whose shard of an arrangement holds value v: the dataflow
\* exchanges every record to the worker its key hashes to
shard(v, n) == v % n

\* the updates of one Update message of epoch ts, taken up by the
\* arrangements in arr.  d holds the open epoch (pending), the closed epochs
\* (trace) and the epoch reached (epoch) of every shard; an update of an
\* epoch its shard has closed already goes straight into the closed
\* contents; a program without arrangements keeps none of them
RECURSIVE Accumulate(_, _, _, _)
Accumulate(d, updates, ts, arr) ==
  IF updates = << >> \/ arr = {}
    THEN d
    ELSE LET u == Head(updates)
             sh == shard(u.v, Cardinality(DOMAIN d.epoch))
             w == IF u.kind = "Insert" THEN 1 ELSE -1
             next == IF u.relid \notin arr
                       THEN d
                       ELSE IF ts < d.epoch[sh]
                         THEN [d EXCEPT !.trace[sh] = MapAdd(@, <<u.relid, u.v>>, w)]
                         ELSE [d EXCEPT !.pending[sh] = MapAdd(@, <<u.relid, u.v>>, w)]
         IN Accumulate(next, Tail(updates), ts, arr)

\* the open epoch g folded into the closed contents f
RECURSIVE MergeInto(_, _)
MergeInto(f, g) ==
  IF DOMAIN g = {}
    THEN f
    ELSE LET x == CHOOSE y \in DOMAIN g : TRUE
         IN MergeInto(MapAdd(f, x, g[x]), MapRemove(g, x))

\* what a worker finds in the arrangement of relation arrid: the values of
\* positive weight in its closed epochs, under key k if one is given
Answer(trace, arrid, k) ==
  {v \in StoredValues : MapGet(trace, <<arrid, v>>) > 0 /\ (k = NoKey \/ v = k)}

\* a worker takes the next command off its channel.  An Update goes into
\* the dataflow at its timestamp; a Flush closes the worker's epoch and is
\* answered by FlushAck; a Query is answered from the closed epochs of the
\* worker's shard, by None for an arrangement the program does not have;
\* on Stop the worker leaves its loop and its thread ends.
worker_step(w) ==
  LET msg == Head(senders[w])
  IN
  /\ worker_alive[w]
  /\ senders[w] # << >>
  /\ senders' = [senders EXCEPT ![w] = Tail(@)]
  /\ reply_recv' =
       CASE msg.kind = "Flush" ->
              [reply_recv EXCEPT ![w] = Append(@, FlushAck(msg.advance_to))]
         [] msg.kind = "Query" ->
              [reply_recv EXCEPT ![w] =
                 Append(@, IF msg.arrid \in arrangements
                             THEN QueryRes(TRUE, Answer(worker_trace[w], msg.arrid, msg.k))
                             ELSE QueryRes(FALSE, {}))]
         [] OTHER -> reply_recv
  /\ LET d == [pending |-> worker_pending, trace |-> worker_trace,
                epoch |-> worker_epoch]
         a == IF msg.kind = "Update"
                THEN Accumulate(d, msg.updates, msg.timestamp, arrangements)
                ELSE d
     IN /\ worker_pending' =
             IF msg.kind = "Flush" THEN [worker_pending EXCEPT ![w] = EmptyMap]
                                   ELSE a.pending
        /\ worker_trace' =
             IF msg.kind = "Flush"
               THEN [worker_trace EXCEPT ![w] = MergeInto(@, worker_pending[w])]
               ELSE a.trace
        /\ worker_epoch' =
             IF msg.kind = "Flush" THEN [worker_epoch EXCEPT ![w] = msg.advance_to]
                                   ELSE worker_epoch
  /\ worker_alive' =
       IF msg.kind = "Stop" THEN [worker_alive EXCEPT ![w] = FALSE] ELSE worker_alive
  /\ worker_result' =
       IF msg.kind = "Stop" THEN [worker_result EXCEPT ![w] = "stopped"] ELSE worker_result
  /\ UNCHANGED <<relations, driver_fields, frame, ret, tx_start, acked, arrangements,
                 dataflow, program, worker_guards>>

\* the timely computation terminates: the worker threads still running
\* fail or panic, and drop their dataflow and their ends of the channels,
\* and with them the unread commands
workers_exit ==
  /\ Connected
  /\ worker_alive' = [w \in Workers |-> FALSE]
  /\ senders' = [w \in Workers |-> << >>]
  /\ worker_pending' = [w \in Workers |-> EmptyMap]
  /\ worker_trace' = [w \in Workers |-> EmptyMap]
  /\ worker_result' =
       [w \in Workers |-> IF worker_alive[w] THEN "died" ELSE worker_result[w]]
  /\ UNCHANGED <<relations, driver_fields, reply_recv, frame, ret, tx_start, acked,
                 arrangements, dataflow, program, worker_epoch, worker_guards>>

Next ==
  \/ transaction_start
  \/ transaction_commit
  \/ transaction_rollback
  \/ apply_updates
  \/ \E u \in ClientUpdates, inspect_ok \in BOOLEAN : apply_updates_next(u, inspect_ok)
  \/ apply_updates_end
  \/ \E relid \in (DOMAIN relations) \cup {UnknownRel} : clear_relation(relid)
  \/ await_flush_ack
  \/ \E w \in Workers : worker_step(w)
  \/ workers_exit

Spec == Init /\ [][Next]_vars

\* the runs of a program with a queryable arrangement, whose client also
\* calls query_arrangement and dump_arrangement
InitQuery == \E cfg \in QueryConfigs : run(cfg)

NextQuery ==
  \/ Next
  \/ \E arrid \in (DOMAIN relations) \cup {UnknownRel}, k \in {NoKey} \cup Values :
       query_arrangement(arrid, k)
  \/ query_recv

SpecQuery == InitQuery /\ [][NextQuery]_vars

\* The runs of a program whose client also stops or drops it.
StopConfigs ==
  {[prog |-> {"F"}, arranged |-> {}, workers |-> n] : n \in 1 .. NumWorkers}

InitStop == \E cfg \in StopConfigs : run(cfg)

NextStop ==
  \/ Next
  \/ stop("stop")
  \/ stop("drop")
  \/ stop_join

SpecStop == InitStop /\ [][NextStop]_vars

\* The runs in which the worker threads keep running: every worker takes
\* each command off its channel in the end and answers it, and the driver
\* goes on whenever the reply or the thread it waits for is there.
LiveConfigs == {[prog |-> {"F"}, arranged |-> {"F"}, workers |-> NumWorkers]}

\* the client's updates in these runs: insertions and deletions of values
LiveUpdates ==
  UNION {{Insert(r, v) : v \in Values} \cup {DeleteValue(r, v) : v \in Values}
         : r \in DOMAIN relations}

InitLive == \E cfg \in LiveConfigs : run(cfg)

NextLive ==
  \/ transaction_start
  \/ transaction_commit
  \/ transaction_rollback
  \/ apply_updates
  \/ \E u \in LiveUpdates : apply_updates_next(u, TRUE)
  \/ apply_updates_end
  \/ await_flush_ack
  \/ \E arrid \in DOMAIN relations, k \in {NoKey} \cup Values :
       query_arrangement(arrid, k)
  \/ query_recv
  \/ stop("stop")
  \/ stop_join
  \/ \E w \in Workers : worker_step(w)

SpecLive ==
  /\ InitLive
  /\ [][NextLive]_vars
  /\ \A w \in 0 .. (NumWorkers - 1) : WF_vars(worker_step(w))
  /\ WF_vars(await_flush_ack)
  /\ WF_vars(query_recv)
  /\ WF_vars(stop_join)

\* The queries of a program on several workers: a flat set with a queryable
\* arrangement, after a committed transaction that inserted some values.
\* The dataflow keeps every value on the worker its key hashes to; place
\* stands for the hash: place[v] is the worker that holds v.
MergeConfigs ==
  {[prog |-> {"F"}, arranged |-> {"F"}, workers |-> n] : n \in 1 .. NumWorkers}

Placements(cfg) ==
  UNION {[S -> 0 .. (cfg.workers - 1)] : S \in SUBSET Values}

\* the RunningProgram after run, one committed transaction that inserted
\* the values of DOMAIN place in one call, and its flush
loaded(cfg, place) ==
  /\ relations = [r \in cfg.prog |->
                    [NewRelation(r) EXCEPT !.elements = DOMAIN place]]
  /\ senders = [w \in 0 .. (cfg.workers - 1) |-> << >>]
  /\ reply_recv = [w \in 0 .. (cfg.workers - 1) |-> << >>]
  /\ worker_alive = [w \in 0 .. (cfg.workers - 1) |-> TRUE]
  /\ acked = [w \in 0 .. (cfg.workers - 1) |-> 2]
  /\ arrangements = cfg.arranged
  /\ dataflow = NoDataflow
  /\ program = NoProgram
  /\ worker_epoch = [w \in 0 .. (cfg.workers - 1) |-> 2]
  /\ worker_pending = [w \in 0 .. (cfg.workers - 1) |-> EmptyMap]
  /\ worker_guards = TRUE
  /\ worker_result = [w \in 0 .. (cfg.workers - 1) |-> "running"]
  /\ worker_trace =
       [w \in 0 .. (cfg.workers - 1) |->
          [x \in {<<r, v>> : r \in cfg.arranged, v \in {y \in DOMAIN place : place[y] = w}}
             |-> 1]]
  /\ transaction_in_progress = FALSE
  /\ need_to_flush = FALSE
  /\ timestamp = 2
  /\ worker_round_robbin = IF place = << >> THEN 0 ELSE 1 % cfg.workers
  /\ pc = "ready"
  /\ op = "none"
  /\ read = << >>
  /\ filtered_updates = << >>
  /\ worker_index = 0
  /\ ret = [call |-> "transaction_commit", ok |-> TRUE]
  /\ tx_relations = << >>
  /\ tx_timestamp = 0
  /\ tx_forwarded = FALSE
  /\ call_relations = << >>
  /\ query = NoQuery
  /\ res = {}
  /\ unknown = FALSE

InitMerge == \E cfg \in MergeConfigs : \E place \in Placements(cfg) : loaded(cfg, place)

NextMerge ==
  \/ \E arrid \in (DOMAIN relations) \cup {UnknownRel}, k \in {NoKey} \cup Values :
       query_arrangement(arrid, k)
  \/ query_recv
  \/ \E w \in Workers : worker_step(w)
  \/ workers_exit

SpecMerge == InitMerge /\ [][NextMerge]_vars

\* The dispatch of large batches.  A chunk holds at least ChunkMin updates,
\* so a call has to forward more than that for a second chunk to exist: the
\* batches are Inserts into a stream, which are all forwarded, and they are
\* as long as the multiples of ChunkMin, one less and one more.
Totals ==
  {t \in {k * ChunkMin + d : k \in 0 .. (NumWorkers + 1), d \in {-1, 0, 1}} : t > 0}

\* the RunningProgram of a stream on n workers inside a call of apply_updates
\* whose loop has read total Inserts of different values, in the transaction
\* of epoch ts; the calls of the earlier, committed ones left the cursor at c
batched(n, c, total, ts) ==
  /\ relations = [r \in {"S"} |->
                    [NewRelation(r) EXCEPT !.delta = [v \in 1 .. total |-> 1]]]
  /\ senders = [w \in 0 .. (n - 1) |-> << >>]
  /\ reply_recv = [w \in 0 .. (n - 1) |-> << >>]
  /\ worker_alive = [w \in 0 .. (n - 1) |-> TRUE]
  /\ acked = [w \in 0 .. (n - 1) |-> ts]
  /\ arrangements = {}
  /\ dataflow = NoDataflow
  /\ program = NoProgram
  /\ worker_epoch = [w \in 0 .. (n - 1) |-> ts]
  /\ worker_pending = [w \in 0 .. (n - 1) |-> EmptyMap]
  /\ worker_trace = [w \in 0 .. (n - 1) |-> EmptyMap]
  /\ worker_guards = TRUE
  /\ worker_result = [w \in 0 .. (n - 1) |-> "running"]
  /\ transaction_in_progress = TRUE
  /\ need_to_flush = FALSE
  /\ timestamp = ts
  /\ worker_round_robbin = c
  /\ pc = "apply"
  /\ op = "apply_updates"
  /\ read = [i \in 1 .. total |-> Insert("S", i)]
  /\ filtered_updates = [i \in 1 .. total |-> Insert("S", i)]
  /\ worker_index = 0
  /\ ret = [call |-> "transaction_start", ok |-> TRUE]
  /\ tx_relations = [r \in {"S"} |-> NewRelation(r)]
  /\ tx_timestamp = ts
  /\ tx_forwarded = FALSE
  /\ call_relations = [r \in {"S"} |-> NewRelation(r)]
  /\ query = NoQuery
  /\ res = {}
  /\ unknown = FALSE

InitDispatch ==
  \E n \in 1 .. NumWorkers : \E c \in 0 .. (n - 1) : \E total \in Totals :
    batched(n, c, total, 2)

NextDispatch ==
  \/ apply_updates_end
  \/ \E w \in Workers : worker_step(w)
  \/ workers_exit

SpecDispatch == InitDispatch /\ [][NextDispatch]_vars

\* The command channels over several epochs: a program whose first call of
\* apply_updates forwards a batch of one update more than NumWorkers chunks
\* of ChunkMin updates, and whose client then goes on with updates, commits
\* and further transactions.
InitEpoch ==
  \E n \in 1 .. NumWorkers : batched(n, 0, NumWorkers * ChunkMin + 1, 1)

NextEpoch ==
  \/ transaction_start
  \/ transaction_commit
  \/ apply_updates
  \/ \E u \in ClientUpdates, inspect_ok \in BOOLEAN : apply_updates_next(u, inspect_ok)
  \/ apply_updates_end
  \/ await_flush_ack
  \/ \E w \in Workers : worker_step(w)
  \/ workers_exit

SpecEpoch == InitEpoch /\ [][NextEpoch]_vars

TypeOK ==
  /\ transaction_in_progress \in BOOLEAN
  /\ need_to_flush \in BOOLEAN
  /\ timestamp \in Nat
  /\ worker_round_robbin \in Workers
  /\ pc \in {"start", "panicked", "ready", "apply", "await", "query", "join", "dropped"}

\* The rules a worker compiles while it builds its dataflow: chains of up to
\* MaxChain operators with StreamXForm nested up to MaxNest deep, compiled at
\* the top level or in the scope of an Scc, with the arrangement they refer
\* to in every flavor that scope can hold.
MaxChain == 3
MaxNest == 2

InColOps == {"Map", "Differentiate", "StreamJoin", "StreamSemijoin"}
InArrOps == {"Aggregate", "Join", "Semijoin", "Antijoin", "StreamJoin"}

RECURSIVE ColChains(_, _)
RECURSIVE ArrChains(_, _)

ColOperators(d) ==
  {XForm(o, << >>) : o \in InColOps}
    \cup (IF d = 0 THEN {} ELSE {XForm("StreamXForm", s) : s \in ColChains(1, d - 1)})

ColChains(n, d) ==
  IF n = 0 THEN {<< >>}
  ELSE {<< >>}
         \cup {<<x>> \o t : x \in ColOperators(d), t \in ColChains(n - 1, d)}
         \cup {<<XForm("Arrange", << >>)>> \o t : t \in ArrChains(n - 1, d)}

ArrChains(n, d) ==
  IF n = 0 THEN {}
  ELSE {<<XForm(o, << >>)>> \o t : o \in InArrOps, t \in ColChains(n - 1, d)}

Rules ==
  {Rule("CollectionRule", c) : c \in ColChains(MaxChain, MaxNest)}
    \cup {Rule("ArrangementRule", c) : c \in ArrChains(MaxChain, MaxNest)}

\* the arrangements a scope can hold: local ones, and in the scope of an Scc
\* also those entered from the top level; only a Set has a distinct flag
Contexts(scope) ==
  {[a \in {ArrId} |-> f] :
     f \in {g \in Flavors : /\ scope = TopScope => g.flavor = "Local"
                            /\ g.kind = "Map" => ~g.distinct}}

BuildConfig == [prog |-> {"F"}, arranged |-> {}, workers |-> 1]

InitBuild ==
  /\ execute_from(BuildConfig)
  /\ program = NoProgram
  /\ \E scope \in {TopScope, SccScope}, rule \in Rules :
       \E arrs \in Contexts(scope) :
         dataflow = [phase |-> "rule", scope |-> scope, arrangements |-> arrs,
                     rule |-> rule, result |-> Built(<< >>), input |-> Opaque,
                     output |-> Opaque]

\* the worker compiles the rule
compile_rule ==
  /\ dataflow.phase = "rule"
  /\ dataflow' =
       [dataflow EXCEPT
          !.phase = "built",
          !.result = mk_rule(dataflow.rule, {StreamRel}, dataflow.arrangements,
                             dataflow.scope)]
  /\ UNCHANGED <<relations, driver_fields, channels, frame, ret, tx_start, acked,
                 arrangements, program, worker_epoch, worker_pending, worker_trace,
                 threads>>

\* the dataflow runs over the epochs of an input collection
run_epochs(c) ==
  /\ dataflow.phase = "built"
  /\ dataflow.result.ok
  /\ dataflow' =
       [dataflow EXCEPT !.phase = "run", !.input = c,
                        !.output = Collection(dataflow.result.df, c)]
  /\ UNCHANGED <<relations, driver_fields, channels, frame, ret, tx_start, acked,
                 arrangements, program, worker_epoch, worker_pending, worker_trace,
                 threads>>

NextBuild ==
  \/ compile_rule
  \/ \E c \in Traces : run_epochs(c)

SpecBuild == InitBuild /\ [][NextBuild]_vars

\* The programs Program::run is called on: up to MaxNodes nodes, each a
\* relation, a transformer or an Scc of up to MaxScc relations; every relation
\* has its own id.
MaxNodes == 2
MaxScc == 2

Shapes ==
  [input : BOOLEAN, caching_mode : {"Stream", "Set", "Multiset"},
   key_func : {"None", "Some"}]

\* a node whose relations get the ids from id on
NodesFrom(id) ==
  {ProgNode("Apply", << >>)}
    \cup {ProgNode("Rel", <<Relation(id, h.input, h.caching_mode, h.key_func, << >>)>>) :
            h \in Shapes}
    \cup UNION {{ProgNode("Scc",
                    [j \in 1 .. n |->
                       Relation(id + j - 1, hs[j].input, hs[j].caching_mode,
                                hs[j].key_func, << >>)]) :
                   hs \in [1 .. n -> Shapes]} : n \in 1 .. MaxScc}

RECURSIVE ProgramsFrom(_, _)
ProgramsFrom(id, n) ==
  IF n = 0 THEN {<< >>}
  ELSE {<< >>} \cup {<<node>> \o rest : node \in NodesFrom(id),
                                        rest \in ProgramsFrom(id + MaxScc, n - 1)}

InitRun ==
  /\ spawned(BuildConfig)
  /\ relations = << >>
  /\ pc = "start"
  /\ ret = [call |-> "none", ok |-> TRUE]
  /\ dataflow = NoDataflow
  /\ program \in ProgramsFrom(1, MaxNodes)

\* Program::run on the program: the relations of the RunningProgram, or the
\* panic of input_relations
program_run ==
  /\ pc = "start"
  /\ LET ids == input_relations(program)
     IN IF ids.ok
          THEN /\ relations' = InsertRelations(program, ids.ids, << >>)
               /\ pc' = "ready"
               /\ ret' = [call |-> "run", ok |-> TRUE]
          ELSE /\ pc' = "panicked"
               /\ ret' = [call |-> "run", ok |-> FALSE]
               /\ UNCHANGED relations
  /\ UNCHANGED <<driver_fields, channels, op, read, filtered_updates, worker_index,
                 call_relations, query_frame, tx_start, acked, worker_state, threads>>

NextRun == program_run

SpecRun == InitRun /\ [][NextRun]_vars

\* The programs whose dependencies a worker analyses while it builds its
\* dataflow: two relations with a rule each, either a node each or the two of
\* them in one Scc behind an input relation; the rules have up to MaxOps
\* operators together and refer to the relations 1 and 2.
MaxOps == 2

DepIds == {1, 2}

DepArrIds == {<<r, 0>> : r \in DepIds}

NoArr == << >>

NoRel == 0

DepColOps ==
  {XFormOn("Map", NoArr, NoRel, << >>)}
    \cup {XFormOn(o, a, NoRel, << >>) :
            o \in {"StreamJoin", "StreamSemijoin"}, a \in DepArrIds}

DepArrOps ==
  {XFormOn("Aggregate", NoArr, NoRel, << >>)}
    \cup {XFormOn(o, a, NoRel, << >>) :
            o \in {"Join", "Semijoin", "Antijoin"}, a \in DepArrIds}
    \cup {XFormOn(o, NoArr, r, << >>) :
            o \in {"StreamJoin", "StreamSemijoin"}, r \in DepIds}

RECURSIVE DepColChains(_)
RECURSIVE DepArrChains(_)

DepColChains(n) ==
  IF n = 0 THEN {<< >>}
  ELSE {<< >>}
         \cup {<<x>> \o t :
                 x \in DepColOps
                         \cup {XFormOn("StreamXForm", NoArr, NoRel, <<s>>) :
                                 s \in DepColOps}
                         \cup {XFormOn("StreamXForm", NoArr, NoRel, << >>)},
                 t \in DepColChains(n - 1)}
         \cup {<<XFormOn("Arrange", NoArr, NoRel, << >>)>> \o t :
                 t \in DepArrChains(n - 1)}

DepArrChains(n) ==
  IF n = 0 THEN {}
  ELSE {<<x>> \o t : x \in DepArrOps, t \in DepColChains(n - 1)}

\* the rules of up to n operators
DepRules(n) ==
  {RuleOn("CollectionRule", r, c) : r \in DepIds, c \in DepColChains(n)}
    \cup {RuleOn("ArrangementRule", a, c) : a \in DepArrIds, c \in DepArrChains(n)}

\* the two shapes of program around the rules r1 and r2
DepPrograms(r1, r2) ==
  {<<ProgNode("Rel", <<Relation(1, FALSE, "Set", "None", <<r1>>)>>),
     ProgNode("Apply", << >>),
     ProgNode("Rel", <<Relation(2, FALSE, "Set", "None", <<r2>>)>>)>>,
   <<ProgNode("Rel", <<Relation(1, TRUE, "Set", "None", << >>)>>),
     ProgNode("Scc", <<Relation(2, FALSE, "Set", "None", <<r1>>),
                       Relation(3, FALSE, "Set", "None", <<r2>>)>>)>>}

InitDeps ==
  /\ spawned(BuildConfig)
  /\ relations = << >>
  /\ pc = "start"
  /\ ret = [call |-> "none", ok |-> TRUE]
  /\ dataflow = NoDataflow
  /\ \E k \in 0 .. MaxOps :
       \E r1 \in DepRules(k), r2 \in DepRules(MaxOps - k) :
         program \in DepPrograms(r1, r2)

\* the worker looks up what the rules, the nodes and the arrangements of the
\* program depend on
analyse ==
  /\ dataflow = NoDataflow
  /\ dataflow' =
       [phase |-> "deps",
        rules |-> [i \in DOMAIN program |->
                     [j \in DOMAIN program[i].rels |->
                        [k \in DOMAIN program[i].rels[j].rules |->
                           rule_dependencies(program[i].rels[j].rules[k])]]],
        nodes |-> [i \in DOMAIN program |-> dependencies(program[i].rels)],
        used |-> [a \in DepArrIds |-> arrangement_used_by_nodes(program, a)]]
  /\ UNCHANGED <<relations, driver_fields, channels, frame, ret, tx_start, acked,
                 arrangements, program, worker_epoch, worker_pending, worker_trace,
                 threads>>

NextDeps == analyse

SpecDeps == InitDeps /\ [][NextDeps]_vars

\* The weights the operations of CheckedWeight are applied to: both ends of
\* i32, the values around zero, and the values at which sums and products
\* first leave i32.
WeightInputs ==
  {I32Min, I32Min + 1, -1073741825, -1073741824, -65536, -46341, -46340, -2, -1,
   0, 1, 2, 3, 46340, 46341, 65535, 65536, 1073741823, 1073741824, I32Max - 1,
   I32Max}

WeightOps == {"add", "add_assign", "mul", "neg", "zero", "one", "is_zero"}

InitWeight ==
  /\ execute_from(BuildConfig)
  /\ program = NoProgram
  /\ \E a \in WeightInputs, b \in WeightInputs :
       dataflow = [phase |-> "weights", self |-> CheckedWeight(a),
                   other |-> CheckedWeight(b), op |-> "none",
                   result |-> Returns(CheckedWeight(0))]

\* the dataflow applies an operation of the weight
weight_op(o) ==
  /\ dataflow.phase = "weights"
  /\ dataflow' =
       [dataflow EXCEPT
          !.phase = "weighed",
          !.op = o,
          !.result =
            CASE o = "add" -> CheckedWeight_add(dataflow.self, dataflow.other)
              [] o = "add_assign" ->
                   CheckedWeight_add_assign(dataflow.self, dataflow.other)
              [] o = "mul" -> CheckedWeight_mul(dataflow.self, dataflow.other)
              [] o = "neg" -> CheckedWeight_neg(dataflow.self)
              [] o = "zero" -> Returns(CheckedWeight_zero)
              [] o = "one" -> Returns(CheckedWeight_one)
              [] OTHER -> Returns(CheckedWeight_is_zero(dataflow.self))]
  /\ UNCHANGED <<relations, driver_fields, channels, frame, ret, tx_start, acked,
                 arrangements, program, worker_epoch, worker_pending, worker_trace,
                 threads>>

NextWeight == \E o \in WeightOps : weight_op(o)

SpecWeight == InitWeight /\ [][NextWeight]_vars

\* ------------------------------------------------------------- observations
\* how often value x occurs in the element store of a relation
count(rel, x) ==
  CASE rel.kind = "Multiset" -> MapGet(rel.elements, x)
    [] rel.kind = "Flat" -> IF x \in rel.elements THEN 1 ELSE 0
    [] rel.kind = "Indexed" ->
         Cardinality({k \in DOMAIN rel.elements : rel.elements[k] = x})
    [] OTHER -> 0

Elements(rels) == [r \in DOMAIN rels |-> rels[r].elements]

DeltasEmpty(rels) == \A r \in DOMAIN rels : rels[r].delta = EmptyMap

Caching(rel) == rel.kind \in {"Multiset", "Flat", "Indexed"}

\* the step on which a client call returns
Returned(call, ok) == pc' = "ready" /\ ret' = [call |-> call, ok |-> ok]

CommitOk ==
  (transaction_commit \/ await_flush_ack) /\ Returned("transaction_commit", TRUE)

RollbackOk ==
  (transaction_rollback \/ await_flush_ack) /\ Returned("transaction_rollback", TRUE)

\* a call is turned down on its precondition: it returns Err and touches nothing
Rejected(call) ==
  /\ Returned(call, FALSE)
  /\ UNCHANGED <<transaction_in_progress, timestamp, need_to_flush, relations,
                 senders>>

\* one iteration of the loop of apply_updates ends the call with Err
UpdateFails ==
  /\ \E u \in ClientUpdates, inspect_ok \in BOOLEAN : apply_updates_next(u, inspect_ok)
  /\ Returned("apply_updates", FALSE)

\* ------------------------------------------------------------------- claims
\* C1: delta conservation.  Inside a transaction, for every multiset, flat
\* or indexed relation R and every value v, R.delta[v] (0 if absent) is the
\* count of v in R's elements minus the count of v in R's elements when the
\* transaction started.
DeltaConservation ==
  transaction_in_progress =>
    \A r \in DOMAIN relations : \A x \in Values :
      Caching(relations[r]) =>
        MapGet(relations[r].delta, x)
          = count(relations[r], x) - count(tx_relations[r], x)

\* C2: rollback identity.  A transaction_rollback that returns Ok leaves every
\* element store as it was before transaction_start and every delta empty.
RollbackIdentity ==
  [][RollbackOk =>
       /\ Elements(relations)' = Elements(tx_relations)
       /\ DeltasEmpty(relations)']_vars

\* C3: whenever no transaction is in progress, the delta of every relation
\* is empty.
DeltasEmptyBetweenTransactions ==
  ~transaction_in_progress => DeltasEmpty(relations)

\* a successful rollback of a transaction that followed a commit which left
\* values in a store
DeltasEmptyBetweenTransactions_Witness ==
  /\ ~transaction_in_progress
  /\ pc = "ready"
  /\ ret = [call |-> "transaction_rollback", ok |-> TRUE]
  /\ timestamp > 2
  /\ \E r \in DOMAIN relations : \E x \in Values : count(relations[r], x) > 0

\* C4 as stated: every successful transaction_commit leaves the timestamp
\* greater than it was before the transaction_start of its transaction.
CommitMonotonicity ==
  [][CommitOk => timestamp' > tx_timestamp]_vars

\* C4, amended: a successful transaction_commit leaves the timestamp no
\* smaller than it was before transaction_start, and greater exactly when an
\* Update message went to a worker during the transaction.
CommitAdvancesIffForwarded ==
  [][CommitOk =>
       /\ timestamp' >= tx_timestamp
       /\ (timestamp' > tx_timestamp) <=> tx_forwarded]_vars

\* a commit has returned Ok after its flush was acknowledged by every worker
CommitAdvancesIffForwarded_Witness ==
  /\ pc = "ready"
  /\ ret = [call |-> "transaction_commit", ok |-> TRUE]
  /\ ~transaction_in_progress
  /\ timestamp > 1
  /\ \A w \in Workers : acked[w] = timestamp
  /\ \E r \in DOMAIN relations : \E x \in Values : count(relations[r], x) > 0

\* C5 as stated: after a successful transaction_rollback the timestamp is
\* what it was before transaction_start.
RollbackKeepsTimestamp ==
  [][RollbackOk => timestamp' = tx_timestamp]_vars

\* C5, amended: a successful transaction_rollback leaves the timestamp no
\* smaller than it was before transaction_start, and equal to it exactly
\* when no Update message went to a worker during the transaction or its
\* rollback.
RollbackAdvancesIffForwarded ==
  [][RollbackOk =>
       /\ timestamp' >= tx_timestamp
       /\ (timestamp' = tx_timestamp) <=> ~tx_forwarded]_vars

\* the first transaction was rolled back successfully and the timestamp moved
\* from 1 to 3: one flush of the forwarded updates, one of their inverses
RollbackAdvancesIffForwarded_Witness ==
  /\ pc = "ready"
  /\ ret = [call |-> "transaction_rollback", ok |-> TRUE]
  /\ ~transaction_in_progress
  /\ timestamp = 3
  /\ \A w \in Workers : acked[w] = 3
  /\ relations = [r \in DOMAIN relations |-> NewRelation(r)]

\* C6: transaction_start fails when a transaction is in progress;
\* transaction_commit, transaction_rollback, apply_updates and clear_relation
\* fail when none is; a call that fails so leaves transaction_in_progress,
\* timestamp, need_to_flush, every element store and delta and every command
\* channel unchanged.  A transaction starts only when none is in progress.
PreconditionErrors ==
  [][/\ (transaction_start /\ transaction_in_progress) => Rejected("transaction_start")
     /\ (transaction_commit /\ ~transaction_in_progress) => Rejected("transaction_commit")
     /\ (transaction_rollback /\ ~transaction_in_progress)
          => Rejected("transaction_rollback")
     /\ (apply_updates /\ ~transaction_in_progress) => Rejected("apply_updates")
     /\ ((\E relid \in (DOMAIN relations) \cup {UnknownRel} : clear_relation(relid))
           /\ ~transaction_in_progress) => Rejected("clear_relation")
     /\ (transaction_start /\ Returned("transaction_start", TRUE))
          => (~transaction_in_progress /\ transaction_in_progress')]_vars

\* transaction_start was turned down inside a transaction that has changes
PreconditionErrors_Witness ==
  /\ pc = "ready"
  /\ ret = [call |-> "transaction_start", ok |-> FALSE]
  /\ transaction_in_progress
  /\ ~DeltasEmpty(relations)

\* C7: when an apply_updates call fails on one of its updates, the
\* transaction is still in progress and every element store and delta is as
\* it was before the call.
FailedBatchKeepsState ==
  [][UpdateFails => (transaction_in_progress' /\ relations' = call_relations)]_vars

\* C8: set idempotence.  On a flat set, inserting x twice leaves what
\* inserting x once leaves; inserting a value that is present changes
\* nothing; and after an insert of x, the delta has no entry for x if x was
\* present when the transaction started.
SetIdempotence ==
  \A r \in DOMAIN relations : \A x \in Values :
    (pc = "apply" /\ relations[r].kind = "Flat") =>
      /\ read = <<Insert(r, x), Insert(r, x)>> =>
           relations = apply_update(call_relations, Insert(r, x), << >>).relations
      /\ (read = <<Insert(r, x)>> /\ x \in call_relations[r].elements) =>
           relations = call_relations
      /\ (read # << >> /\ read[Len(read)] = Insert(r, x)
            /\ x \in tx_relations[r].elements) =>
           x \notin DOMAIN relations[r].delta

\* value 0 was in the flat set when the transaction started, was deleted,
\* and the running call has now inserted it twice
SetIdempotence_Witness ==
  /\ pc = "apply"
  /\ "F" \in DOMAIN relations
  /\ read = <<Insert("F", 0), Insert("F", 0)>>
  /\ 0 \in tx_relations["F"].elements
  /\ 0 \notin call_relations["F"].elements
  /\ relations["F"].delta = EmptyMap

\* C9 as stated: in a transaction that has changed nothing yet, insert(x)
\* followed by delete_value(x) on a multiset, flat or indexed relation leaves
\* the delta without an entry for x, whether or not x was present at the
\* start.
InsertDeleteCancels ==
  \A r \in DOMAIN relations : \A x \in Values :
    (/\ pc = "apply"
     /\ Caching(relations[r])
     /\ call_relations = tx_relations
     /\ read = <<Insert(r, x), DeleteValue(r, x)>>) =>
      x \notin DOMAIN relations[r].delta

\* C9, amended: in a transaction that has changed nothing yet, insert(x)
\* followed by delete_value(x) leaves an empty delta, except on a flat set
\* that held x at the start: there the insert is a no-op, the delete removes
\* x, and the delta is {x: -1}.  On an indexed relation the insert is only
\* accepted when the key of x is free.
InsertDeleteCancelsUnlessPresent ==
  \A r \in DOMAIN relations : \A x \in Values :
    (pc = "apply" /\ Caching(relations[r]) /\ call_relations = tx_relations) =>
      /\ read = <<Insert(r, x), DeleteValue(r, x)>> =>
           relations[r].delta =
             IF relations[r].kind = "Flat" /\ x \in tx_relations[r].elements
               THEN MapPut(EmptyMap, x, -1)
               ELSE EmptyMap
      /\ (relations[r].kind = "Indexed" /\ read # << >> /\ read[1] = Insert(r, x)) =>
           key_func(x) \notin DOMAIN tx_relations[r].elements

\* the flat set held 0 when the transaction started; its first call has
\* processed insert(0) and delete_value(0)
InsertDeleteCancelsUnlessPresent_Witness ==
  /\ pc = "apply"
  /\ "F" \in DOMAIN relations
  /\ call_relations = tx_relations
  /\ read = <<Insert("F", 0), DeleteValue("F", 0)>>
  /\ 0 \in tx_relations["F"].elements
  /\ relations["F"].delta = MapPut(EmptyMap, 0, -1)

\* C10: flush barrier.  When the transaction_commit of a transaction that
\* forwarded updates returns Ok, the driver has received from every worker
\* the FlushAck of the latest Flush, the one that advanced to the current
\* timestamp.
FlushBarrier ==
  [][(CommitOk /\ tx_forwarded) => \A w \in Workers : acked'[w] = timestamp']_vars

\* _query_arrangement returns Ok to the client
QueryOk ==
  /\ query_recv
  /\ pc' = "ready"
  /\ ret'.call = "query_arrangement"
  /\ ret'.ok

\* the values of relation r as of the last commit: what the store held when
\* the open transaction started, or what it holds between transactions
CommittedValues(r) ==
  {v \in StoredValues :
     count(IF transaction_in_progress THEN tx_relations[r] ELSE relations[r], v) > 0}

\* C11: a dump_arrangement that returns Ok returns the committed contents of
\* the arranged relation: all updates of the transactions committed so far
\* and none of the open transaction.
QueryObservesCommitted ==
  [][(QueryOk /\ query.k = NoKey) => ret'.val = CommittedValues(query.arrid)]_vars

\* update u is an Insert into an indexed relation that holds the key of u's value
DuplicateKey(u) ==
  /\ u.kind = "Insert"
  /\ u.relid \in DOMAIN relations
  /\ relations[u.relid].kind = "Indexed"
  /\ key_func(u.v) \in DOMAIN relations[u.relid].elements

Same(x, y) == IF x = y THEN 1 ELSE 0

\* C13: indexed replace.  InsertOrUpdate(v) on an indexed relation that
\* holds old under the key of v appends DeleteValue(old), Insert(v), in this
\* order, to the updates to forward, takes one off delta(old), adds one to
\* delta(v) and stores v under the key; a call of insert_or_update(v) alone
\* sends exactly these two updates in one message.  When the key is free the
\* update does what Insert(v) does.
IndexedReplace ==
  [][/\ \A u \in ClientUpdates :
          (/\ pc = "apply"
           /\ u.kind = "InsertOrUpdate"
           /\ u.relid \in DOMAIN relations
           /\ relations[u.relid].kind = "Indexed"
           /\ apply_updates_next(u, TRUE)) =>
            LET rel == relations[u.relid]
                k == key_func(u.v)
            IN IF k \in DOMAIN rel.elements
                 THEN /\ pc' = "apply"
                      /\ filtered_updates' =
                           filtered_updates \o <<DeleteValue(u.relid, rel.elements[k]),
                                                 Insert(u.relid, u.v)>>
                      /\ \A x \in StoredValues :
                           MapGet(relations'[u.relid].delta, x) =
                             MapGet(rel.delta, x) - Same(x, rel.elements[k]) + Same(x, u.v)
                      /\ relations'[u.relid].elements = MapPut(rel.elements, k, u.v)
                 ELSE LET r == apply_update(relations, Insert(u.relid, u.v),
                                            filtered_updates)
                      IN /\ pc' = "apply"
                         /\ relations' = r.relations
                         /\ filtered_updates' = r.filtered
     /\ \A r \in DOMAIN relations : \A v \in Values :
          (/\ apply_updates_end
           /\ Connected
           /\ relations[r].kind = "Indexed"
           /\ read = <<InsertOrUpdate(r, v)>>
           /\ key_func(v) \in DOMAIN call_relations[r].elements) =>
            senders' = [senders EXCEPT ![worker_round_robbin] =
                          Append(@, UpdateMsg(<<DeleteValue(r, call_relations[r].elements[key_func(v)]),
                                                Insert(r, v)>>, timestamp))]]_vars

\* insert_or_update(1) has replaced value 0, stored under the same key
IndexedReplace_Witness ==
  /\ pc = "apply"
  /\ "I" \in DOMAIN relations
  /\ read = <<InsertOrUpdate("I", 1)>>
  /\ call_relations["I"].elements = MapPut(EmptyMap, key_func(1), 0)
  /\ relations["I"].elements = MapPut(EmptyMap, key_func(1), 1)
  /\ filtered_updates = <<DeleteValue("I", 0), Insert("I", 1)>>

\* update u changes nothing in the flat set it addresses: an Insert of a
\* value the set holds, or a DeleteValue of one it does not hold
FlatNoOp(u) ==
  /\ u.relid \in DOMAIN relations
  /\ relations[u.relid].kind = "Flat"
  /\ \/ u.kind = "Insert" /\ u.v \in relations[u.relid].elements
     \/ u.kind = "DeleteValue" /\ u.v \notin relations[u.relid].elements

\* C14: flat-set no-op coalescing.  On a flat set an Insert of a value the
\* set holds and a DeleteValue of a value it does not hold succeed, change no
\* store and no delta and add nothing to the updates to forward; a call that
\* inserts an absent value twice sends one message with one Insert, and a
\* call that inserts a value the set holds sends nothing and does not ask for
\* a flush.
FlatNoOps ==
  [][/\ \A u \in ClientUpdates :
          (pc = "apply" /\ FlatNoOp(u) /\ apply_updates_next(u, TRUE)) =>
            /\ pc' = "apply"
            /\ read' = Append(read, u)
            /\ UNCHANGED <<relations, filtered_updates, senders>>
     /\ \A r \in DOMAIN relations : \A v \in Values :
          (apply_updates_end /\ Connected /\ relations[r].kind = "Flat") =>
            /\ (read = <<Insert(r, v), Insert(r, v)>> /\ v \notin call_relations[r].elements) =>
                 senders' = [senders EXCEPT ![worker_round_robbin] =
                               Append(@, UpdateMsg(<<Insert(r, v)>>, timestamp))]
            /\ (read = <<Insert(r, v)>> /\ v \in call_relations[r].elements) =>
                 UNCHANGED <<senders, need_to_flush>>]_vars

\* the running call has inserted the absent value 0 twice and holds one
\* Insert to forward
FlatNoOps_Witness ==
  /\ pc = "apply"
  /\ "F" \in DOMAIN relations
  /\ read = <<Insert("F", 0), Insert("F", 0)>>
  /\ 0 \notin call_relations["F"].elements
  /\ filtered_updates = <<Insert("F", 0)>>
  /\ relations["F"].delta = MapPut(EmptyMap, 0, 1)

IndexedKeyUniqueness ==
  \A r \in DOMAIN relations :
    relations[r].kind = "Indexed" =>
      \A k \in DOMAIN relations[r].elements : key_func(relations[r].elements[k]) = k

\* how often update u occurs in the vector updates
Occurrences(updates, u) == Cardinality({i \in DOMAIN updates : updates[i] = u})

\* total of the absolute counts a relation holds of the stored values
RECURSIVE Size(_, _)
Size(rel, S) ==
  IF S = {}
    THEN 0
    ELSE LET v == CHOOSE x \in S : TRUE
         IN (IF count(rel, v) < 0 THEN -count(rel, v) ELSE count(rel, v))
              + Size(rel, S \ {v})

\* the vector updates retracts exactly what relation rel of id relid holds:
\* count-many DeleteValue of every value held, as many Inserts of a value as
\* a multiset holds it negatively, and nothing else
Retracts(updates, relid, rel) ==
  /\ Len(updates) = Size(rel, StoredValues)
  /\ \A v \in StoredValues :
       Occurrences(updates, DeleteValue(relid, v)) - Occurrences(updates, Insert(relid, v))
         = count(rel, v)

\* C17: clear_relation(R) inside a transaction.  On a stream it returns Err
\* and changes nothing.  On a multiset, flat set or indexed relation, with a
\* worker to send to, it returns Ok, leaves R's store empty, sends one
\* message with a retraction of exactly what R held (nothing when R was
\* empty) and leaves delta(v) = -(count of v at transaction start) for
\* every v.
ClearRelation ==
  [][\A relid \in DOMAIN relations :
       (transaction_in_progress /\ Connected /\ clear_relation(relid)) =>
         IF relations[relid].kind = "Stream"
           THEN Rejected("clear_relation")
           ELSE /\ Returned("clear_relation", TRUE)
                /\ relations'[relid].elements = NewRelation(relid).elements
                /\ \A v \in StoredValues :
                     MapGet(relations'[relid].delta, v) = - count(tx_relations[relid], v)
                /\ IF Size(relations[relid], StoredValues) = 0
                     THEN UNCHANGED senders
                     ELSE \E updates \in clear_vectors(relid, relations[relid]) :
                            LET sent == apply_loop(relations, updates, << >>).filtered
                            IN /\ Retracts(sent, relid, relations[relid])
                               /\ senders' = [senders EXCEPT ![worker_round_robbin] =
                                                Append(@, UpdateMsg(sent, timestamp))]]_vars

\* a step of query_arrangement / dump_arrangement: the broadcast or one
\* iteration of the receive loop
QueryStep ==
  \/ \E arrid \in (DOMAIN relations) \cup {UnknownRel}, k \in {NoKey} \cup Values :
       query_arrangement(arrid, k)
  \/ query_recv

\* what the step sends to worker w is nothing or one Query
SendsQueryOnly(w) ==
  \/ senders'[w] = senders[w]
  \/ /\ Len(senders'[w]) = Len(senders[w]) + 1
     /\ SubSeq(senders'[w], 1, Len(senders[w])) = senders[w]
     /\ senders'[w][Len(senders'[w])].kind = "Query"

\* C19: query_arrangement and dump_arrangement are allowed between and inside
\* transactions and leave the driver state unchanged.  Every step of the call
\* keeps transaction_in_progress, timestamp, need_to_flush, the round-robin
\* cursor and every element store and delta, and sends nothing but Query
\* messages; with a worker to talk to the call is not turned down, and it
\* returns Err only for an arrangement id the workers do not know or when
\* the workers are gone.
QueryFrame ==
  [][QueryStep =>
       /\ UNCHANGED <<transaction_in_progress, timestamp, need_to_flush,
                      worker_round_robbin, relations>>
       /\ \A w \in Workers : SendsQueryOnly(w)
       /\ (pc = "ready" /\ Connected) => pc' = "query"
       /\ (pc = "query" /\ Returned("query_arrangement", FALSE)) =>
            (~Connected \/ query.arrid \notin arrangements)]_vars

\* a query has returned Ok inside a transaction that has changed a relation
\* and has updates to flush
QueryFrame_Witness ==
  /\ pc = "ready"
  /\ ret.call = "query_arrangement"
  /\ ret.ok
  /\ transaction_in_progress
  /\ need_to_flush
  /\ \E r \in DOMAIN relations : relations[r].delta # EmptyMap

\* the values workers hold of arrangement arrid that answer a query for key
\* k: the union of the sets the workers reply with
MergedAnswer(arrid, k) == UNION {Answer(worker_trace[w], arrid, k) : w \in Workers}

\* C18: query merge.  The call sends one Query to each of the N workers.
\* Every iteration of its loop takes exactly one reply, of the worker whose
\* turn it is, and the call returns on a reply only with the last worker's:
\* all N replies have been consumed, none is left, and the result is Ok
\* exactly when the workers know the arrangement (the unknown-index error
\* comes after the last reply only).  An Ok result is the union of the sets
\* the workers hold, whichever worker holds which value: the values of the
\* relation that match the key.
QueryMerge ==
  [][/\ \A arrid \in (DOMAIN relations) \cup {UnknownRel}, k \in {NoKey} \cup Values :
          (Connected /\ query_arrangement(arrid, k)) =>
             \A w \in Workers : senders'[w] = Append(senders[w], QueryMsg(arrid, k))
     /\ (query_recv /\ reply_recv[worker_index] # << >>) =>
          /\ reply_recv' = [reply_recv EXCEPT ![worker_index] = Tail(@)]
          /\ IF worker_index + 1 < Cardinality(Workers)
               THEN pc' = "query" /\ worker_index' = worker_index + 1
               ELSE /\ pc' = "ready"
                    /\ ret'.call = "query_arrangement"
                    /\ ret'.ok = (query.arrid \in arrangements)
                    /\ \A w \in Workers : reply_recv'[w] = << >>
                    /\ ret'.ok =>
                         /\ ret'.val = {v \in relations[query.arrid].elements :
                                          query.k = NoKey \/ v = query.k}
                         /\ Connected => ret'.val = MergedAnswer(query.arrid, query.k)]_vars

\* a dump has returned two values that two different workers hold
QueryMerge_Witness ==
  /\ pc = "ready"
  /\ ret.call = "query_arrangement"
  /\ ret.ok
  /\ Cardinality(ret.val) = 2
  /\ \E w1, w2 \in Workers :
       /\ w1 # w2
       /\ worker_trace[w1] # EmptyMap
       /\ worker_trace[w2] # EmptyMap

\* the unknown-index error: a query for an arrangement the workers do not
\* know has returned Err with the workers running and every reply consumed
QueryMerge_Unknown ==
  /\ pc = "ready"
  /\ ret.call = "query_arrangement"
  /\ ~ret.ok
  /\ Connected
  /\ Cardinality(Workers) > 1
  /\ \A w \in Workers : reply_recv[w] = << >> /\ senders[w] = << >>

\* the message worker w's command queue holds at place i after those it held
\* before the step
NewMsg(w, i) == senders'[w][Len(senders[w]) + i]

\* C20: chunked round-robin dispatch.  A successful apply_updates with
\* total > 0 filtered updates on N workers, the cursor being c, sends
\* ceil(total / size) chunks of size = max(floor(total / N), 5000), the last
\* one possibly smaller: chunk i (i = 0, 1, ...) holds the updates
\* i * size + 1 .. min((i + 1) * size, total) in order, stamped with the
\* current timestamp, and goes to worker (c + i) mod N; no other message is
\* sent, so every update is sent exactly once.  Afterwards the cursor is
\* (c + number of chunks) mod N.  The cursor is in 0 .. N-1 in every state.
ChunkedDispatch ==
  /\ [](worker_round_robbin \in 0 .. (Cardinality(Workers) - 1))
  /\ [][(/\ apply_updates_end
         /\ filtered_updates # << >>
         /\ Returned("apply_updates", TRUE)) =>
          LET total == Len(filtered_updates)
              N == Cardinality(Workers)
              c == worker_round_robbin
              size == IF total \div N >= 5000 THEN total \div N ELSE 5000
              chunks == (total + size - 1) \div size
          IN /\ (chunks - 1) * size < total
             /\ total <= chunks * size
             /\ \A w \in Workers :
                  /\ Len(senders'[w]) =
                       Len(senders[w])
                         + Cardinality({i \in 0 .. (chunks - 1) : (c + i) % N = w})
                  /\ SubSeq(senders'[w], 1, Len(senders[w])) = senders[w]
             /\ \A i \in 0 .. (chunks - 1) :
                  LET msg == NewMsg((c + i) % N, (i \div N) + 1)
                  IN /\ msg.kind = "Update"
                     /\ msg.timestamp = timestamp
                     /\ msg.updates =
                          SubSeq(filtered_updates, i * size + 1,
                                 IF (i + 1) * size <= total THEN (i + 1) * size ELSE total)
             /\ worker_round_robbin' = (c + chunks) % N]_vars

\* a call has sent more chunks than there are workers: the worker the cursor
\* was at got the first and the last chunk, and the cursor has moved on to
\* another worker than 0
ChunkedDispatch_Witness ==
  /\ pc = "ready"
  /\ ret = [call |-> "apply_updates", ok |-> TRUE]
  /\ Cardinality(Workers) > 1
  /\ worker_round_robbin # 0
  /\ \E w \in Workers :
       /\ Len(senders[w]) = 2
       /\ Len(senders[w][1].updates) = ChunkMin
       /\ Len(senders[w][2].updates) = 1

\* what the step enqueues on the command channel of worker w
Sent(w) ==
  IF /\ Len(senders'[w]) > Len(senders[w])
     /\ SubSeq(senders'[w], 1, Len(senders[w])) = senders[w]
    THEN SubSeq(senders'[w], Len(senders[w]) + 1, Len(senders'[w]))
    ELSE << >>

\* the place of a command in the order of the epochs: Flush{advance_to = t}
\* comes before the Updates of epoch t, which come before Flush{t + 1}
Stamp(msg) ==
  CASE msg.kind = "Update" -> 2 * msg.timestamp
    [] msg.kind = "Flush"  -> 2 * msg.advance_to - 1
    [] OTHER               -> 0

\* the commands waiting on a channel are in the order of the epochs, none is
\* of an epoch the driver has not reached, and no Flush is repeated
ChannelInOrder(w) ==
  /\ \A i \in DOMAIN senders[w] : Stamp(senders[w][i]) <= 2 * timestamp
  /\ \A i, j \in DOMAIN senders[w] :
       (i < j /\ Stamp(senders[w][i]) > 0 /\ Stamp(senders[w][j]) > 0) =>
         /\ Stamp(senders[w][i]) <= Stamp(senders[w][j])
         /\ senders[w][i].kind = "Flush" => Stamp(senders[w][i]) < Stamp(senders[w][j])

\* the places of the vector fu where the updates of message msg can start
Starts(fu, msg) ==
  {p \in DOMAIN fu :
     /\ fu[p] = msg.updates[1]
     /\ p + Len(msg.updates) - 1 <= Len(fu)
     /\ SubSeq(fu, p, p + Len(msg.updates) - 1) = msg.updates}

\* C21: epoch separation on every worker command channel.  An Update is
\* enqueued with the driver's timestamp t of the moment.  A Flush is
\* enqueued with advance_to = t + 1, on every channel, as the last command
\* of its step, and this step and no other moves the timestamp, to t + 1:
\* the Flushes of a channel carry advance_to values that increase by exactly
\* 1, and the Updates of epoch t are enqueued after Flush{t} and before
\* Flush{t + 1}.  The chunks one apply_updates call enqueues on the same
\* channel are in call order: each starts in the vector of filtered updates
\* after the end of the one before.  The commands waiting on a channel are
\* in the order of the epochs.
EpochSeparation ==
  /\ [](\A w \in Workers : ChannelInOrder(w))
  /\ [][/\ \A w \in Workers :
             \A i \in DOMAIN Sent(w) :
               /\ Sent(w)[i].kind \in {"Update", "Flush"}
               /\ Sent(w)[i].kind = "Update" => Sent(w)[i].timestamp = timestamp
               /\ Sent(w)[i].kind = "Flush" =>
                    /\ Sent(w)[i].advance_to = timestamp + 1
                    /\ i = Len(Sent(w))
                    /\ timestamp' = timestamp + 1
        /\ timestamp' # timestamp =>
             /\ timestamp' = timestamp + 1
             /\ \A w \in Workers :
                  /\ Sent(w) # << >>
                  /\ Sent(w)[Len(Sent(w))] = FlushMsg(timestamp + 1)
        /\ apply_updates_end =>
             \A w \in Workers :
               /\ \A i \in DOMAIN Sent(w) : Starts(filtered_updates, Sent(w)[i]) # {}
               /\ \A i, j \in DOMAIN Sent(w) :
                    i < j =>
                      \E p \in Starts(filtered_updates, Sent(w)[i]),
                         q \in Starts(filtered_updates, Sent(w)[j]) :
                        p + Len(Sent(w)[i].updates) <= q]_vars

\* a worker has two chunks of the first call waiting, both of epoch 1, and
\* behind them the Flush of the commit that advances to epoch 2
EpochSeparation_Witness ==
  /\ timestamp = 2
  /\ \E w \in Workers :
       /\ Len(senders[w]) = 3
       /\ senders[w][1].kind = "Update"
       /\ senders[w][2].kind = "Update"
       /\ senders[w][1].timestamp = 1
       /\ senders[w][2].timestamp = 1
       /\ senders[w][3] = FlushMsg(2)

\* the second epoch: an Update of epoch 2 waits in front of the Flush that
\* advances to epoch 3
EpochSeparation_Second ==
  /\ timestamp = 3
  /\ \E w \in Workers :
       /\ Len(senders[w]) = 2
       /\ senders[w][1].kind = "Update"
       /\ senders[w][1].timestamp = 2
       /\ senders[w][2] = FlushMsg(3)

\* C22: commit steps.  transaction_commit in a transaction, with
\* need_to_flush set and the workers running, enqueues Flush{advance_to =
\* timestamp + 1} on every channel, increments the timestamp by exactly 1,
\* clears need_to_flush and waits for the acknowledgements, during which it
\* sends nothing and keeps the timestamp.  With need_to_flush not set it
\* sends nothing, keeps the timestamp and every element store, clears all
\* deltas, ends the transaction and returns Ok.
CommitSteps ==
  [][/\ (transaction_commit /\ transaction_in_progress) =>
          IF need_to_flush
            THEN Connected =>
                   /\ senders' = [w \in Workers |->
                                    Append(senders[w],
                                           [kind |-> "Flush", advance_to |-> timestamp + 1])]
                   /\ timestamp' = timestamp + 1
                   /\ ~need_to_flush'
                   /\ pc' = "await"
                   /\ UNCHANGED <<relations, transaction_in_progress>>
            ELSE /\ UNCHANGED <<senders, timestamp, need_to_flush>>
                 /\ DeltasEmpty(relations')
                 /\ Elements(relations') = Elements(relations)
                 /\ ~transaction_in_progress'
                 /\ Returned("transaction_commit", TRUE)
     /\ (await_flush_ack /\ op = "transaction_commit") =>
          UNCHANGED <<senders, timestamp, need_to_flush>>]_vars

\* a commit has broadcast its Flush and waits: the timestamp is one more
\* than at transaction start and every channel ends with the Flush to it
CommitSteps_Witness ==
  /\ pc = "await"
  /\ op = "transaction_commit"
  /\ timestamp = tx_timestamp + 1
  /\ \A w \in Workers :
       /\ senders[w] # << >>
       /\ senders[w][Len(senders[w])] = [kind |-> "Flush", advance_to |-> timestamp]

\* a commit without a flush: a commit has returned Ok and the timestamp is
\* the one the program started with
CommitSteps_NoFlush ==
  /\ pc = "ready"
  /\ ret = [call |-> "transaction_commit", ok |-> TRUE]
  /\ timestamp = 1
  /\ Connected

\* the step runs delta_undo: transaction_rollback found nothing to flush, or
\* the last acknowledgement of its first flush has arrived
UndoStep ==
  \/ transaction_rollback /\ transaction_in_progress /\ ~need_to_flush
  \/ /\ await_flush_ack
     /\ op = "rollback_flush"
     /\ worker_index + 1 = Cardinality(Workers)
     /\ reply_recv[worker_index] # << >>
     /\ Head(reply_recv[worker_index]).kind = "FlushAck"

\* the vector updates is the inverse of the deltas of rels: for every entry
\* (v, w) of the delta of a relation w DeleteValue(v) if w > 0 and -w
\* Insert(v) if w < 0, nothing else, and no Insert of a relation before a
\* DeleteValue of the same relation
InverseOf(updates, rels) ==
  /\ \A i \in DOMAIN updates :
       /\ updates[i].relid \in DOMAIN rels
       /\ updates[i].kind \in {"Insert", "DeleteValue"}
  /\ \A r \in DOMAIN rels, v \in StoredValues :
       LET w == MapGet(rels[r].delta, v)
       IN /\ Occurrences(updates, DeleteValue(r, v)) = (IF w > 0 THEN w ELSE 0)
          /\ Occurrences(updates, Insert(r, v)) = (IF w < 0 THEN -w ELSE 0)
  /\ \A i, j \in DOMAIN updates :
       (i < j /\ updates[i].relid = updates[j].relid /\ updates[i].kind = "Insert") =>
         updates[j].kind = "Insert"

\* C23: the rollback protocol.  transaction_rollback in a transaction with
\* need_to_flush set first broadcasts a Flush and waits, changing no
\* relation.  Then, or at once when there is nothing to flush, it undoes the
\* deltas: with the workers running the inverse updates all succeed; when
\* the deltas are empty nothing is sent and the call returns Ok; otherwise
\* the inverse of the deltas goes to a worker as one Update, every worker
\* gets the Flush after it, and the call waits again.  After the last
\* acknowledgement of the second flush the call returns Ok.  When rollback
\* returns Ok the driver is Idle and the deltas are empty.
RollbackProtocol ==
  [][/\ (transaction_rollback /\ transaction_in_progress /\ need_to_flush /\ Connected) =>
          /\ \A w \in Workers :
               Sent(w) = <<[kind |-> "Flush", advance_to |-> timestamp + 1]>>
          /\ pc' = "await"
          /\ UNCHANGED <<relations, transaction_in_progress>>
     /\ (UndoStep /\ Connected) =>
          /\ ~Returned("transaction_rollback", FALSE)
          /\ IF DeltasEmpty(relations)
               THEN /\ UNCHANGED <<senders, timestamp, relations>>
                    /\ Returned("transaction_rollback", TRUE)
               ELSE /\ pc' = "await"
                    /\ transaction_in_progress'
                    /\ \A w \in Workers :
                         IF w = worker_round_robbin
                           THEN /\ Len(Sent(w)) = 2
                                /\ Sent(w)[1].kind = "Update"
                                /\ Sent(w)[1].timestamp = timestamp
                                /\ InverseOf(Sent(w)[1].updates, relations)
                                /\ Sent(w)[2] = [kind |-> "Flush",
                                                 advance_to |-> timestamp + 1]
                           ELSE Sent(w) = <<[kind |-> "Flush",
                                             advance_to |-> timestamp + 1]>>
     /\ RollbackOk => ~transaction_in_progress' /\ DeltasEmpty(relations')]_vars

\* a Stop waits on the command channel of worker w
StopQueued(w) == \E i \in DOMAIN senders[w] : senders[w][i].kind = "Stop"

\* C24: the stop protocol.  stop on a program not stopped yet, with updates
\* to flush and the workers running, first broadcasts the Flush and waits
\* for the acknowledgements.  Then it enqueues one Stop on every channel
\* and joins the worker threads; it returns Ok when every worker ended on
\* its Stop and Err when a worker ended with an error.  Stop is the last
\* command of its channel: nothing is enqueued behind it or once the worker
\* has taken it.  stop on a stopped program returns Ok and sends nothing.
\* Dropping the program takes the same steps and returns nothing.
StopProtocol ==
  /\ [](\A w \in Workers : \A i \in DOMAIN senders[w] :
          senders[w][i].kind = "Stop" => i = Len(senders[w]))
  /\ [][/\ \A o \in {"stop", "drop"} :
             (stop(o) /\ worker_guards /\ need_to_flush /\ Connected) =>
                /\ \A w \in Workers :
                     Sent(w) = <<[kind |-> "Flush", advance_to |-> timestamp + 1]>>
                /\ pc' = "await"
        /\ (\E w \in Workers : \E i \in DOMAIN Sent(w) : Sent(w)[i].kind = "Stop") =>
             /\ \A w \in Workers : Sent(w) = <<[kind |-> "Stop"]>>
             /\ ~need_to_flush'
             /\ \A w \in Workers : reply_recv'[w] = << >>
             /\ pc' = "join"
             /\ op' \in {"stop", "drop"}
        /\ \A w \in Workers :
             (StopQueued(w) \/ worker_result[w] = "stopped") => Sent(w) = << >>
        /\ (stop_join /\ op = "stop") =>
             /\ ~worker_guards'
             /\ pc' = "ready"
             /\ ret'.call = "stop"
             /\ ret'.ok = (\A w \in Workers : worker_result[w] = "stopped")
        /\ (stop("stop") /\ ~worker_guards) =>
             /\ Returned("stop", TRUE)
             /\ UNCHANGED <<senders, timestamp, need_to_flush, relations>>
        /\ pc' = "dropped" => ret' = [call |-> "drop", ok |-> TRUE]]_vars

\* transaction_commit, called in a transaction, returns Err
CommitFails ==
  /\ \/ transaction_commit /\ transaction_in_progress
     \/ await_flush_ack /\ op = "transaction_commit"
  /\ Returned("transaction_commit", FALSE)

\* C25: the commit barrier does not partially succeed.  When the flush of
\* transaction_commit fails, commit returns Err, the transaction remains in
\* progress and no relation or delta is changed.  Commit returns Ok only
\* when all workers have acknowledged: every update forwarded since the
\* last acknowledged Flush is covered by a Flush that every worker has
\* acknowledged, the one that advanced to the current timestamp.
CommitBarrier ==
  [][/\ CommitFails => transaction_in_progress' /\ UNCHANGED relations
     /\ (CommitOk /\ timestamp' > tx_timestamp) =>
          \A w \in Workers : acked'[w] = timestamp']_vars

\* the part of C25 about the failing call alone
CommitFailureKeepsTransaction ==
  [][CommitFails => transaction_in_progress' /\ UNCHANGED relations]_vars


\* ---------------------------------------------------------------------- C26
\* a call of the client is under way / has returned to the client
Called(c) == pc \in {"await", "query", "join"} /\ CallOf(op) = c

ReturnedFrom(c) == pc = "ready" /\ ret.call = c

BlockingCalls ==
  {"transaction_commit", "transaction_rollback", "query_arrangement", "stop"}

\* the steps with which the driver goes on inside a call
DriverContinues ==
  \/ apply_updates_end
  \/ await_flush_ack
  \/ query_recv
  \/ stop_join

\* what the driver waits for is not there: the reply of the worker whose turn
\* it is, or the end of a worker thread
AwaitsReply ==
  \/ pc \in {"await", "query"} /\ reply_recv[worker_index] = << >>
  \/ pc = "join" /\ \E w \in Workers : worker_alive[w]

\* C26: when every worker takes each command off its channel in the end and
\* answers each Flush with one FlushAck and each Query with one QueryRes,
\* every call of transaction_commit, transaction_rollback, query_arrangement
\* and stop returns in the end, in whatever order the workers make progress;
\* the driver stands still inside a call only while the reply (or the end of
\* the thread) it waits for is missing, never because of a send.
CallsReturn ==
  /\ (\E c \in BlockingCalls : Called(c)) ~> (pc = "ready")
  /\ [][\A c \in BlockingCalls : Called(c) /\ pc' = "ready" => ReturnedFrom(c)']_vars
  /\ [](pc \in {"apply", "await", "query", "join"} /\ ~AwaitsReply
          => ENABLED DriverContinues)

\* a commit waits for the FlushAck of the second worker while the first worker
\* has not yet taken the Flush: the second worker ran ahead of the first
CallsReturn_Witness ==
  /\ Called("transaction_commit")
  /\ worker_index = 0
  /\ reply_recv[0] = << >>
  /\ reply_recv[NumWorkers - 1] # << >>

\* a stop waits for the worker threads to end
CallsReturn_Join == pc = "join" /\ op = "stop" /\ \E w \in Workers : worker_alive[w]

\* a query waits for the replies of the workers
CallsReturn_Query == Called("query_arrangement") /\ reply_recv[worker_index] = << >>

\* a rollback waits for the acknowledgement of its inverse updates
CallsReturn_Rollback == pc = "await" /\ op = "rollback_undo"

\* ------------------------------------------------------------- C27 .. C30
\* the chain of the rule being compiled, its outcome and its arrangement
Chain == dataflow.rule.xform

Outcome == dataflow.result

Target == dataflow.arrangements[ArrId]

\* the compilation came to the operator at position i / got past it
Reached(i) == Outcome.ok \/ Outcome.at >= i

Realized(i) == Outcome.ok \/ Outcome.at > i

PanicsAt(i, msg) == ~Outcome.ok /\ Outcome.at = i /\ Outcome.err = msg

\* position i holds an operator on an arrangement / follows such an operator
OnArrangement(i) ==
  \/ i = 1 /\ dataflow.rule.kind = "ArrangementRule"
  \/ i > 1 /\ Chain[i - 1].op = "Arrange"

AfterArrangement(i) ==
  \/ dataflow.rule.kind = "ArrangementRule"
  \/ \E j \in 1 .. (i - 1) : Chain[j].op = "Arrange"

\* the chain inside the StreamXForm at i comes to an operator o
Inside(i, o) ==
  /\ Chain[i].op = "StreamXForm"
  /\ \E k \in DOMAIN Chain[i].xform :
       /\ Chain[i].xform[k].op = o
       /\ \A j \in 1 .. (k - 1) : Chain[i].xform[j].op \in ClosureOps

NoStreamXForm == \A i \in DOMAIN Chain : Chain[i].op # "StreamXForm"

\* what is left of C27 for the places the code compiles in streamless mode:
\* a StreamXForm inside a StreamXForm or after an operator on an arrangement
\* is a panic, and a chain without StreamXForm compiles to the same in both
\* modes
StreamlessMode_Nested ==
  dataflow.phase = "built" =>
    /\ \A i \in DOMAIN Chain :
         (Chain[i].op = "StreamXForm" /\ Reached(i)
            /\ (AfterArrangement(i) \/ Inside(i, "StreamXForm")))
           => PanicsAt(i, "StreamXForm in nested scope")
    /\ (dataflow.rule.kind = "CollectionRule" /\ Chain # << >> /\ NoStreamXForm) =>
         streamless_xform_collection_ref(<<StreamRel>>, Chain, 1, dataflow.arrangements,
                                         {StreamRel}, dataflow.scope) = Outcome

\* C27: a StreamXForm met in streamless mode (in a rule of an Scc, inside the
\* chain of a StreamXForm, or after an operator on an arrangement) is a build
\* error instead of a dataflow; every other operator is realized as in
\* streamful mode.
StreamlessMode ==
  /\ StreamlessMode_Nested
  /\ dataflow.phase = "built" =>
       \A i \in DOMAIN Chain :
         (Chain[i].op = "StreamXForm" /\ Reached(i) /\ dataflow.scope = SccScope)
           => PanicsAt(i, "StreamXForm in nested scope")

\* a StreamXForm after a Join is refused at the top level
StreamlessMode_Witness ==
  /\ dataflow.phase = "built"
  /\ dataflow.scope = TopScope
  /\ Len(Chain) = 3
  /\ Chain[2].op = "Join"
  /\ PanicsAt(3, "StreamXForm in nested scope")

\* C28: Differentiate is a panic whenever it is compiled in a nested scope
\* (the iterative scope of an Scc, the AltNeu scope of a StreamXForm); at the
\* top level it is realized, and the collection it makes of C is C minus C
\* delayed by one epoch.
DifferentiateScope ==
  /\ dataflow.phase = "built" =>
       \A i \in DOMAIN Chain :
         /\ (Chain[i].op = "Differentiate" /\ ~OnArrangement(i) /\ Reached(i)) =>
              /\ dataflow.scope = TopScope => Realized(i)
              /\ dataflow.scope # TopScope =>
                   PanicsAt(i, "Differentiate operator used in recursive context")
         /\ (Inside(i, "Differentiate") /\ ~AfterArrangement(i) /\ Reached(i)) =>
              PanicsAt(i, "Differentiate operator used in recursive context")
  /\ (/\ dataflow.phase = "run"
      /\ \A i \in DOMAIN Chain : Chain[i].op \in {"Map", "Differentiate"}
      /\ Cardinality({i \in DOMAIN Chain : Chain[i].op = "Differentiate"}) = 1) =>
       /\ dataflow.scope = TopScope
       /\ \A t \in Epochs :
            dataflow.output[t] =
              dataflow.input[t] - (IF t = 0 THEN 0 ELSE dataflow.input[t - 1])

\* a record that is there in epoch 0 only leaves the differentiated collection
\* in epoch 1
DifferentiateScope_Witness ==
  /\ dataflow.phase = "run"
  /\ Len(Chain) = 1
  /\ Chain[1].op = "Differentiate"
  /\ dataflow.input[0] = 1
  /\ dataflow.input[1] = 0
  /\ dataflow.output[1] = -1

\* Differentiate in the rule of an Scc is a panic
DifferentiateScope_Scc ==
  /\ dataflow.phase = "built"
  /\ dataflow.scope = SccScope
  /\ Len(Chain) = 2
  /\ Chain[1].op = "Map"
  /\ PanicsAt(2, "Differentiate operator used in recursive context")

\* C29: Join is realized iff its arrangement is a Map, local or foreign;
\* Semijoin and Antijoin iff it is a Set, local or foreign; StreamJoin of a
\* collection iff it is a local Map and StreamSemijoin iff it is a local Set;
\* an ArrangementRule is compiled iff its source is a Map, local or foreign,
\* and is an error when its source is a Set.
ArrangementFlavors ==
  dataflow.phase = "built" =>
    /\ \A i \in DOMAIN Chain :
         Reached(i) =>
           /\ (OnArrangement(i) /\ Chain[i].op = "Join") =>
                (Realized(i) <=> Target.kind = "Map")
           /\ (OnArrangement(i) /\ Chain[i].op \in {"Semijoin", "Antijoin"}) =>
                (Realized(i) <=> Target.kind = "Set")
           /\ (~OnArrangement(i) /\ Chain[i].op = "StreamJoin") =>
                (Realized(i) <=> (Target.kind = "Map" /\ Target.flavor = "Local"))
           /\ (~OnArrangement(i) /\ Chain[i].op = "StreamSemijoin") =>
                (Realized(i) <=> (Target.kind = "Set" /\ Target.flavor = "Local"))
    /\ dataflow.rule.kind = "ArrangementRule" =>
         /\ Reached(1) <=> Target.kind = "Map"
         /\ Target.kind = "Set" => PanicsAt(0, "Rule starts with a set arrangement")

\* a Join with an arrangement entered from the top level is realized in the
\* rule of an Scc
ArrangementFlavors_Witness ==
  /\ dataflow.phase = "built"
  /\ dataflow.scope = SccScope
  /\ Target = [flavor |-> "Foreign", kind |-> "Map", distinct |-> FALSE]
  /\ Len(Chain) = 2
  /\ Chain[2].op = "Join"
  /\ Outcome.ok

\* a StreamJoin with an arrangement entered from the top level is a panic
ArrangementFlavors_Foreign ==
  /\ dataflow.phase = "built"
  /\ Target = [flavor |-> "Foreign", kind |-> "Map", distinct |-> FALSE]
  /\ Len(Chain) = 1
  /\ Chain[1].op = "StreamJoin"
  /\ PanicsAt(1, "StreamJoin in nested scope")

\* C30: a rule whose Antijoin refers to a Set arrangement without the distinct
\* flag does not build.
AntijoinDistinct ==
  dataflow.phase = "built" =>
    \A i \in DOMAIN Chain :
      (OnArrangement(i) /\ Chain[i].op = "Antijoin" /\ Reached(i)
         /\ Target.kind = "Set" /\ ~Target.distinct)
        => ~Realized(i)

\* ---------------------------------------------------------------------- C31
\* the relations of the top-level relation nodes of the program
TopLevel == {program[i].rels[1] : i \in {j \in DOMAIN program : program[j].node = "Rel"}}

\* an Scc of the program holds a relation flagged as input
InputInScc ==
  \E i \in DOMAIN program :
    /\ program[i].node = "Scc"
    /\ \E j \in DOMAIN program[i].rels : program[i].rels[j].input

\* the variant of the instance of an input relation
VariantOf(rel) ==
  IF rel.caching_mode = "Stream" THEN "Stream"
  ELSE IF rel.caching_mode = "Multiset" THEN "Multiset"
  ELSE IF rel.key_func = "None" THEN "Flat" ELSE "Indexed"

\* C31: run rejects a program with an input relation inside an Scc; otherwise
\* the running program has one relation instance for every input relation
\* among the top-level relation nodes and for no other relation, of the
\* variant its caching mode and key function select (Stream; Multiset; Set
\* without key: Flat; Set with key: Indexed), with empty elements and delta.
InputInstances ==
  pc \in {"ready", "panicked"} =>
    /\ pc = "panicked" <=> InputInScc
    /\ pc = "ready" =>
         /\ DOMAIN relations = {rel.id : rel \in {t \in TopLevel : t.input}}
         /\ \A rel \in TopLevel :
              rel.input =>
                /\ relations[rel.id].kind = VariantOf(rel)
                /\ relations[rel.id].delta = EmptyMap
                /\ relations[rel.id].elements =
                     (IF VariantOf(rel) = "Flat" THEN {} ELSE EmptyMap)

\* a program with an indexed input relation and an Scc without input
\* relations runs
InputInstances_Witness ==
  /\ pc = "ready"
  /\ Len(program) = 2
  /\ program[1].node = "Rel"
  /\ program[2].node = "Scc"
  /\ DOMAIN relations = {1}
  /\ relations[1].kind = "Indexed"

\* a program with an input relation in an Scc is refused
InputInstances_Scc ==
  /\ pc = "panicked"
  /\ Len(program) = 2
  /\ program[1].node = "Rel"
  /\ program[1].rels[1].input

\* what one operator of a chain depends on, on the side of the chain it
\* stands on
InducedBy(x, arranged) ==
  IF x.op \in {"Join", "Semijoin", "Antijoin"} THEN {DepArr(x.arrangement)}
  ELSE IF x.op \in {"StreamJoin", "StreamSemijoin"}
         THEN IF arranged THEN {DepRel(x.rel)} ELSE {DepArr(x.arrangement)}
  ELSE {}

\* the operator at position i of chain c works on an arrangement
Arranged(c, first, i) == IF i = 1 THEN first ELSE c[i - 1].op = "Arrange"

\* the union over the operators of a chain and of the chains inside its
\* StreamXForm operators
ChainInduced(c, first) ==
  UNION {InducedBy(c[i], Arranged(c, first, i))
           \cup UNION {InducedBy(c[i].xform[j], Arranged(c[i].xform, FALSE, j)) :
                         j \in DOMAIN c[i].xform} :
           i \in DOMAIN c}

RuleInduced(r) ==
  IF r.kind = "CollectionRule"
    THEN ChainInduced(r.xform, FALSE) \cup {DepRel(r.source)}
    ELSE ChainInduced(r.xform, TRUE) \cup {DepArr(r.source)}

Analysed == dataflow # NoDataflow /\ dataflow.phase = "deps"

\* the dependencies found for the rules of node i
NodeRuleDeps(i) ==
  UNION {UNION {dataflow.rules[i][j][k] : k \in DOMAIN program[i].rels[j].rules} :
           j \in DOMAIN program[i].rels}

\* C32: the dependencies of a rule are the union of what each operator of
\* its chain induces (Arr for Join, Semijoin, Antijoin and for StreamJoin and
\* StreamSemijoin of a collection, Rel for StreamJoin and StreamSemijoin of an
\* arrangement, sub-chain and continuation for StreamXForm) and the rule's
\* own source; the dependencies of a group of relations leave out those on
\* relations of the group; a node uses an arrangement iff one of its rules
\* has Arr(id) among its dependencies.
DependencyAnalysis ==
  Analysed =>
    /\ \A i \in DOMAIN program :
         \A j \in DOMAIN program[i].rels :
           \A k \in DOMAIN program[i].rels[j].rules :
             dataflow.rules[i][j][k] = RuleInduced(program[i].rels[j].rules[k])
    /\ \A i \in DOMAIN program :
         dataflow.nodes[i] =
           {d \in NodeRuleDeps(i) :
              d.relid \notin {program[i].rels[j].id : j \in DOMAIN program[i].rels}}
    /\ \A a \in DepArrIds :
         dataflow.used[a] = {i \in DOMAIN program : DepArr(a) \in NodeRuleDeps(i)}

\* an Scc whose rules join an arrangement of the Scc and, inside a
\* StreamXForm, one of a relation outside of it
DependencyAnalysis_Witness ==
  /\ Analysed
  /\ \E i \in DOMAIN program :
       /\ program[i].node = "Scc"
       /\ dataflow.nodes[i] # {}
       /\ dataflow.nodes[i] # NodeRuleDeps(i)
       /\ i \in dataflow.used[<<2, 0>>]
       /\ i \in dataflow.used[<<1, 0>>]
       /\ \E j \in DOMAIN program[i].rels :
            \E c \in {program[i].rels[j].rules[1].xform} :
              \E n \in DOMAIN c :
                /\ c[n].op = "StreamXForm"
                /\ c[n].xform # << >>
                /\ c[n].xform[1].op = "StreamJoin"
                /\ c[n].xform[1].arrangement = <<1, 0>>

\* C33: in a collection rule compiled at the top level a StreamXForm at any
\* position of the chain, also after an Arrange and its join or aggregate, is
\* compiled (differentiate, sub-chain, integrate) and not refused.
StreamfulAcceptance ==
  (/\ dataflow.phase = "built"
   /\ dataflow.scope = TopScope
   /\ dataflow.rule.kind = "CollectionRule") =>
    \A i \in DOMAIN Chain :
      (Chain[i].op = "StreamXForm" /\ Reached(i) /\ ~Inside(i, "StreamXForm"))
        => ~PanicsAt(i, "StreamXForm in nested scope")

\* before the first Arrange of the chain it is compiled
StreamfulAcceptance_Before ==
  (/\ dataflow.phase = "built"
   /\ dataflow.scope = TopScope
   /\ dataflow.rule.kind = "CollectionRule") =>
    \A i \in DOMAIN Chain :
      (/\ Chain[i].op = "StreamXForm"
       /\ Reached(i)
       /\ ~AfterArrangement(i)
       /\ ~Inside(i, "StreamXForm"))
        => ~PanicsAt(i, "StreamXForm in nested scope")

\* update u is a DeleteValue, DeleteKey or Modify of an indexed relation
IndexedDelete(u) ==
  /\ u.kind \in {"DeleteValue", "DeleteKey", "Modify"}
  /\ u.relid \in DOMAIN relations
  /\ relations[u.relid].kind = "Indexed"

\* the key u addresses
KeyOf(u) == IF u.kind = "DeleteValue" THEN key_func(u.v) ELSE u.v

\* what C34 says of the step that applies u; dirty tells whether it is also
\* said of a Modify whose mutator fails after it has written the value
IndexedDeleteStep(u, dirty) ==
  LET rel == relations[u.relid]
      s == rel.elements
      k == KeyOf(u)
      old == s[k]
      succeeds ==
        /\ k \in DOMAIN s
        /\ u.kind = "DeleteValue" => old = u.v
        /\ u.kind = "Modify" => Mutate(u.m, old).ok
  IN IF succeeds
       THEN /\ pc' = "apply"
            /\ IF u.kind = "Modify"
                 THEN LET new == relations'[u.relid].elements[k]
                      IN /\ filtered_updates' =
                              filtered_updates \o <<DeleteValue(u.relid, old),
                                                    Insert(u.relid, new)>>
                         /\ \A x \in StoredValues :
                              MapGet(relations'[u.relid].delta, x) =
                                MapGet(rel.delta, x) - Same(x, old) + Same(x, new)
                 ELSE /\ relations'[u.relid].elements = MapRemove(s, k)
                      /\ filtered_updates' =
                           Append(filtered_updates, DeleteValue(u.relid, old))
                      /\ \A x \in StoredValues :
                           MapGet(relations'[u.relid].delta, x) =
                             MapGet(rel.delta, x) - Same(x, old)
       ELSE /\ Returned("apply_updates", FALSE)
            /\ (dirty \/ k \notin DOMAIN s \/ u.kind # "Modify"
                  \/ Mutate(u.m, old).val = old) =>
                 /\ UNCHANGED <<relations, senders>>
                 /\ apply_update(relations, u, filtered_updates).filtered
                      = filtered_updates

\* C34: on an indexed relation DeleteValue(v) succeeds iff the key of v is
\* stored with value v, DeleteKey(k) iff k is stored, Modify(k, m) iff k is
\* stored and the mutator succeeds; a successful delete removes the entry,
\* takes one off the delta of the removed value and forwards one DeleteValue
\* of it; a successful Modify forwards DeleteValue(pre-image), Insert(post-
\* image) and updates the delta of both; a failed one leaves the store, the
\* delta and the updates to forward as they are.
IndexedDeletes ==
  [][\A u \in ClientUpdates :
       (pc = "apply" /\ IndexedDelete(u) /\ apply_updates_next(u, TRUE)) =>
         IndexedDeleteStep(u, TRUE)]_vars

\* the same without the Modify whose mutator fails after writing the value
IndexedDeletes_Clean ==
  [][\A u \in ClientUpdates :
       (pc = "apply" /\ IndexedDelete(u) /\ apply_updates_next(u, TRUE)) =>
         IndexedDeleteStep(u, FALSE)]_vars

\* update u addresses a multiset or a flat set
Keyless(u) ==
  /\ u.relid \in DOMAIN relations
  /\ relations[u.relid].kind \in {"Multiset", "Flat"}

KeylessUpdates_Flat ==
  /\ pc = "ready"
  /\ ret = [call |-> "apply_updates", ok |-> FALSE]
  /\ "F" \in DOMAIN relations
  /\ relations["F"].elements = {0}
  /\ relations["F"].delta = MapPut(EmptyMap, 0, 1)

\* the maps of counts a relation holds: its delta, and the store of a multiset
CountMaps(rel) ==
  {rel.delta} \cup (IF rel.kind = "Multiset" THEN {rel.elements} ELSE {})

SumInRange(a, b) ==
  LET half == (a \div 2) + (b \div 2) + (((a % 2) + (b % 2)) \div 2)
  IN half >= -1073741824 /\ half <= 1073741823

\* the product of two i32 lies in i32: told by the quotients of the ends of
\* i32 by a positive factor
ProductInRange(a, b) ==
  CASE a = 0 \/ b = 0 -> TRUE
    [] b > 0 ->
         /\ a <= I32Max \div b
         /\ a >= (I32Min \div b) + (IF I32Min % b = 0 THEN 0 ELSE 1)
    [] a > 0 ->
         /\ b <= I32Max \div a
         /\ b >= (I32Min \div a) + (IF I32Min % a = 0 THEN 0 ELSE 1)
    [] OTHER -> a # I32Min /\ b # I32Min /\ (0 - a) <= I32Max \div (0 - b)

Weighed(o) == dataflow.phase = "weighed" /\ dataflow.op = o

Overflows == dataflow.result = Panics("Weight overflow")

Gives(v) == dataflow.result = Returns(CheckedWeight(v))

\* C37: add, add-assign, mul and neg of the checked weight over i32 return
\* the exact result when it lies in [-2^31, 2^31 - 1] and abort with "Weight
\* overflow" otherwise; zero() is 0, one() is 1 and is_zero holds for 0 alone.
CheckedWeights ==
  LET a == dataflow.self.value
      b == dataflow.other.value
  IN /\ (Weighed("add") \/ Weighed("add_assign")) =>
          IF SumInRange(a, b) THEN Gives(a + b) ELSE Overflows
     /\ Weighed("mul") => IF ProductInRange(a, b) THEN Gives(a * b) ELSE Overflows
     /\ Weighed("neg") => IF a >= -I32Max THEN Gives(0 - a) ELSE Overflows
     /\ Weighed("zero") => Gives(0)
     /\ Weighed("one") => Gives(1)
     /\ Weighed("is_zero") => dataflow.result = Returns(a = 0)

\* the sum of the largest weight and one aborts
CheckedWeights_Witness ==
  /\ Weighed("add")
  /\ dataflow.self.value = I32Max
  /\ dataflow.other.value = 1
  /\ Overflows

\* the product of -1 and the smallest weight aborts
CheckedWeights_Product ==
  /\ Weighed("mul")
  /\ dataflow.self.value = -1
  /\ dataflow.other.value = I32Min
  /\ Overflows

\* 46340 squared is a weight
CheckedWeights_Exact ==
  /\ Weighed("mul")
  /\ dataflow.self.value = 46340
  /\ dataflow.other.value = 46340
  /\ Gives(2147395600)

\* the places of the updates that wait in the command channel of worker w
Slots(w) ==
  UNION {IF senders[w][i].kind = "Update"
           THEN {<<i, j>> : j \in DOMAIN senders[w][i].updates}
           ELSE {} : i \in DOMAIN senders[w]}

\* how often update u waits in the channel of worker w
Waiting(w, u) ==
  Cardinality({s \in Slots(w) : senders[w][s[1]].updates[s[2]] = u})

\* the Inserts less the DeleteValues of value v of relation r that worker w
\* was sent: those in its channel, in its open epoch and in its closed epochs
ForwardedTo(w, r, v) ==
  Waiting(w, Insert(r, v)) - Waiting(w, DeleteValue(r, v))
    + MapGet(worker_pending[w], <<r, v>>) + MapGet(worker_trace[w], <<r, v>>)

\* the same for the workers ws together
RECURSIVE Forwarded(_, _, _)
Forwarded(ws, r, v) ==
  IF ws = {} THEN 0
  ELSE LET w == CHOOSE x \in ws : TRUE
       IN ForwardedTo(w, r, v) + Forwarded(ws \ {w}, r, v)

\* C38: between the calls of a run in which no send has failed, the count of
\* value v in the store of a relation is the number of Insert(R, v) less the
\* number of DeleteValue(R, v) forwarded to the workers, also after a batch
\* that failed part-way and after a commit or rollback that follows it.
StoreMatchesDataflow ==
  (pc = "ready" /\ \A w \in Workers : worker_alive[w]) =>
    \A r \in DOMAIN relations \cap arrangements :
      \A v \in StoredValues :
        count(relations[r], v) = Forwarded(Workers, r, v)

\* update u is an Insert or a DeleteValue of a value of relation r
Primitive(u) ==
  /\ u.kind \in {"Insert", "DeleteValue"}
  /\ u.relid \in DOMAIN relations
  /\ u.v \in StoredValues
  /\ u.m = "none"

\* C39: every update of an Update message in the channel of a worker, and
\* every update the driver holds to forward, is an Insert or a DeleteValue of
\* a value: InsertOrUpdate, DeleteKey and Modify are turned into DeleteValue
\* and Insert of the values concerned before they are forwarded, and of the
\* updates of a stream only Insert and DeleteValue are forwarded.
PrimitiveUpdatesOnly ==
  /\ \A w \in Workers :
       \A s \in Slots(w) : Primitive(senders[w][s[1]].updates[s[2]])
  /\ \A j \in DOMAIN filtered_updates : Primitive(filtered_updates[j])

\* a worker was sent the DeleteValue and the Insert that a Modify or an
\* InsertOrUpdate of the indexed relation was turned into
PrimitiveUpdatesOnly_Witness ==
  /\ "I" \in DOMAIN relations
  /\ pc = "ready"
  /\ ret = [call |-> "apply_updates", ok |-> TRUE]
  /\ \E i \in DOMAIN senders[0] :
       /\ senders[0][i].kind = "Update"
       /\ senders[0][i].updates = <<Insert("I", 0), DeleteValue("I", 0), Insert("I", 1)>>

\* the step takes nothing off the command channels
Enqueues ==
  \A w \in Workers :
    /\ Len(senders'[w]) >= Len(senders[w])
    /\ SubSeq(senders'[w], 1, Len(senders[w])) = senders[w]

\* what the step appends to the command channel of worker w
Appended(w) == SubSeq(senders'[w], Len(senders[w]) + 1, Len(senders'[w]))

\* q holds an Update that no Flush follows
UpdateLast(q) ==
  \E i \in DOMAIN q :
    /\ q[i].kind = "Update"
    /\ \A j \in (i + 1) .. Len(q) : q[j].kind # "Flush"

HoldsFlush(q) == \E i \in DOMAIN q : q[i].kind = "Flush"

\* need_to_flush follows the commands the step enqueues: cleared by a Flush,
\* set by an Update that no Flush follows, kept otherwise
FlushFlagStep ==
  IF Enqueues /\ \E w \in Workers : HoldsFlush(Appended(w))
    THEN need_to_flush' = \E w \in Workers : UpdateLast(Appended(w))
  ELSE IF Enqueues /\ \E w \in Workers : UpdateLast(Appended(w))
    THEN need_to_flush'
  ELSE need_to_flush' = need_to_flush

\* the replies in the channels are those the running call waits for
RepliesMatchCall ==
  /\ pc = "ready" => \A w \in Workers : reply_recv[w] = << >>
  /\ \A w \in Workers :
       \A i \in DOMAIN reply_recv[w] :
         /\ pc = "await" => reply_recv[w][i].kind = "FlushAck"
         /\ pc = "query" => reply_recv[w][i].kind = "QueryRes"
         /\ i = 1

\* C40: with workers that answer every Flush with one FlushAck and every
\* Query with one QueryRes, every reply channel is empty whenever a call of
\* the driver has returned, a call that waits for replies finds only those of
\* its own broadcast, and need_to_flush is true exactly when an Update was
\* enqueued on a command channel after the latest Flush.
ReplyAccounting ==
  /\ ~need_to_flush
  /\ []RepliesMatchCall
  /\ [][FlushFlagStep]_vars

\* a query has returned after an update that no Flush followed: the reply
\* channels are empty and the flag is set
ReplyAccounting_Witness ==
  /\ pc = "ready"
  /\ ret.call = "query_arrangement"
  /\ ret.ok
  /\ need_to_flush
  /\ timestamp > 1
  /\ \A w \in Workers : reply_recv[w] = << >> /\ senders[w] = << >>
====
